---- MODULE Spec2Model ----
(***************************************************************************)
(* Model of the dual-panel file manager of src/src/main.rs: the two        *)
(* panels of FileSystemModel, the streaming directory loaders              *)
(* (load_fs_directory_async, load_zip_directory_async) with their          *)
(* background threads and mpsc channels, the per-frame pump of             *)
(* render_panel, and the selection, paging, scrolling and open commands.   *)
(*                                                                         *)
(* Paths are sequences of name segments (<<>> is the filesystem root,      *)
(* which has no parent); an archive-internal path is a sequence of         *)
(* segments too (<<>> is the archive root, the string "").  An             *)
(* Option<T> is a sequence of length 0 (None) or 1 (Some).                 *)
(* The theme picker is closed throughout (theme_picker_open = false).      *)
(***************************************************************************)
EXTENDS Integers, Sequences, FiniteSets, TLC

(***************************************************************************)
(* Bounds of the model and program constants.                              *)
(***************************************************************************)
\* open_selected calls a run of Spec may make on a panel that shows entries
MaxOpens == 1
\* the same for a run of SpecNav, where the user stays in one panel
MaxNavOpens == 2
MaxLeaveOpens == 2
MaxCraftedOpens == 2
MaxHeight == 100
MaxDumpLen == 34
MaxCopyOpens == 1
MaxCopies == 2
MaxDirLen == 3
MaxMembers == 3
MaxBytes == 50
F32Scale == 16777216
F32Threshold == 14260634
\* select_entry is tried with every index 0..MaxIndex
MaxIndex == 4

\* size of the synchronous first page: 128 in the source, scaled
SnapshotLen == 2
\* size of a streamed chunk: 500 in the source, scaled
Chunk == 2
\* rows of the fallback window when the viewport is not laid out yet
FallbackRows == 10
\* row height in pixels
RowPx == 24
\* rows one wheel notch scrolls
WheelRows == 3

\* viewport heights (pixels) the layout may report: unmeasured, 2 rows
Heights == {0, 48}

None == << >>
Some(x) == << x >>

Min(a, b) == IF a < b THEN a ELSE b
Max(a, b) == IF a > b THEN a ELSE b
\* usize::saturating_sub
SatSub(a, b) == IF a > b THEN a - b ELSE 0

Side == {"Left", "Right"}
Other(s) == IF s = "Left" THEN "Right" ELSE "Left"

(***************************************************************************)
(* The environment: a fixed filesystem and one zip archive.                *)
(***************************************************************************)
Root == << >>
DirD == << "d" >>
DirG == << "g" >>
DirE == << "g", "e" >>
ZipA == << "a.zip" >>
ZipB == << "g", "e", "b.zip" >>

\* directories with their children in the order read_dir yields them
FsDirs == {Root, DirD, DirG, DirE}
FsChildren(p) ==
    IF p = Root THEN << [name |-> "d", is_dir |-> TRUE],
                        [name |-> "a.zip", is_dir |-> FALSE],
                        [name |-> "f", is_dir |-> FALSE],
                        [name |-> "g", is_dir |-> TRUE] >>
    ELSE IF p = DirD THEN << [name |-> "y", is_dir |-> FALSE],
                             [name |-> "x", is_dir |-> FALSE],
                             [name |-> "w", is_dir |-> FALSE] >>
    ELSE IF p = DirG THEN << [name |-> "h", is_dir |-> FALSE],
                             [name |-> "i.png", is_dir |-> FALSE],
                             [name |-> "e", is_dir |-> TRUE] >>
    ELSE IF p = DirE THEN << [name |-> "b.zip", is_dir |-> FALSE] >>
    ELSE << >>

\* member names of the archive a.zip, each split at '/'; << "s", "" >> is "s/"
ZipMembers(ap) ==
    IF ap = ZipA THEN << << "s", "m" >>, << "r" >>, << "s", "" >>, << "q" >>,
                         << "s", "n" >>, << "p" >>, << "o" >> >>
    \* b.zip names members outside its root: "../k", ".." and "t"
    ELSE IF ap = ZipB THEN << << "..", "k" >>, << ".." >>, << "t" >> >>
    ELSE << >>

\* the bytes of the names of this environment
Bytes(n) ==
    CASE n = ".." -> << 46, 46 >>
      [] n = "" -> << >>
      [] n = "A" -> << 65 >>
      [] n = "a.txt" -> << 97, 46, 116, 120, 116 >>
      [] n = "a.zip" -> << 97, 46, 122, 105, 112 >>
      [] n = "b.txt" -> << 98, 46, 116, 120, 116 >>
      [] n = "b.zip" -> << 98, 46, 122, 105, 112 >>
      [] n = "e" -> << 101 >>
      [] n = "k" -> << 107 >>
      [] n = "t" -> << 116 >>
      [] n = "d" -> << 100 >>
      [] n = "f" -> << 102 >>
      [] n = "g" -> << 103 >>
      [] n = "h" -> << 104 >>
      [] n = "i.png" -> << 105, 46, 112, 110, 103 >>
      [] n = "lib" -> << 108, 105, 98 >>
      [] n = "m" -> << 109 >>
      [] n = "main.txt" -> << 109, 97, 105, 110, 46, 116, 120, 116 >>
      [] n = "n" -> << 110 >>
      [] n = "o" -> << 111 >>
      [] n = "p" -> << 112 >>
      [] n = "q" -> << 113 >>
      [] n = "r" -> << 114 >>
      [] n = "readme.md" -> << 114, 101, 97, 100, 109, 101, 46, 109, 100 >>
      [] n = "s" -> << 115 >>
      [] n = "src" -> << 115, 114, 99 >>
      [] n = "util.txt" -> << 117, 116, 105, 108, 46, 116, 120, 116 >>
      [] n = "w" -> << 119 >>
      [] n = "x" -> << 120 >>
      [] n = "y" -> << 121 >>

\* the lexicographic order of byte strings
BytesLess(a, b) ==
    \E i \in 1..Len(b) :
        /\ i <= Len(a) + 1
        /\ \A j \in 1..(i - 1) : a[j] = b[j]
        /\ i = Len(a) + 1 \/ a[i] < b[i]

\* String::cmp on names
NameLess(a, b) == BytesLess(Bytes(a), Bytes(b))

\* is_zip_path taking every file for an archive
is_zip_path_any(p) == Len(p) > 0

\* names whose extension is "zip" (case-insensitively)
is_zip_path(p) == Len(p) > 0 /\ p[Len(p)] \in {"a.zip", "b.zip"}

\* Path::parent and Path::file_name
HasParent(p) == Len(p) > 0
Parent(p) == SubSeq(p, 1, Len(p) - 1)
FileName(p) == IF Len(p) > 0 THEN Some(p[Len(p)]) ELSE None

(***************************************************************************)
(* Entries and locations.                                                  *)
(***************************************************************************)
FsLoc(p) == [kind |-> "Fs", path |-> p, inner_path |-> << >>]
\* a location inside an archive that forgets it is one
ZipLocFlat(ap, inner) == [kind |-> "Fs", path |-> ap, inner_path |-> inner]
ZipLoc(ap, inner) == [kind |-> "Zip", path |-> ap, inner_path |-> inner]
DirEntry(n, d, loc) == [name |-> n, is_dir |-> d, location |-> loc]

FsMode == [kind |-> "Fs", archive_path |-> << >>, cwd |-> << >>]
ZipMode(ap, cwd) == [kind |-> "Zip", archive_path |-> ap, cwd |-> cwd]

RECURSIVE Flatten(_)
Flatten(batches) ==
    IF batches = << >> THEN << >>
    ELSE Head(batches) \o Flatten(Tail(batches))

\* Iterator::position(|e| e.name == name): None or Some(0-based index)
Position(entries, name) ==
    IF \E i \in 1..Len(entries) : entries[i].name = name
    THEN Some((CHOOSE i \in 1..Len(entries) :
                  /\ entries[i].name = name
                  /\ \A j \in 1..(i - 1) : entries[j].name # name) - 1)
    ELSE None

\* the entries of a Vec at 0-based indexes, as the code reads entries[i]
At(entries, i) == entries[i + 1]

\* sort_by(|a, b| a.name.cmp(&b.name)) of a set of names
RECURSIVE SortNames(_)
SortNames(S) ==
    IF S = {} THEN << >>
    ELSE LET m == CHOOSE x \in S : \A y \in S : x = y \/ NameLess(x, y)
         IN << m >> \o SortNames(S \ {m})

\* names whose extension is one of png, jpg, jpeg, gif, bmp, webp
is_image_path(p) == Len(p) > 0 /\ p[Len(p)] \in {"i.png"}

(***************************************************************************)
(* read_zip_directory: the listing of directory cwd of archive ap, when    *)
(* the archive opens.                                                      *)
(***************************************************************************)
\* name.starts_with(prefix), prefix = "" at the root, else cwd + "/"
StartsWithPrefix(n, cwd) ==
    cwd = << >> \/ (Len(n) > Len(cwd) /\ SubSeq(n, 1, Len(cwd)) = cwd)
\* &name[prefix.len()..], split at '/'
Rem(n, cwd) == SubSeq(n, Len(cwd) + 1, Len(n))
\* the members kept by the scan loop: prefix matches, remainder not empty
\* of the members in the order of the archive
ZipKeep(n, cwd) == StartsWithPrefix(n, cwd) /\ Rem(n, cwd) # << "" >>
ZipKept(members, cwd) ==
    LET kept == SelectSeq(members, LAMBDA n : ZipKeep(n, cwd))
    IN [i \in 1..Len(kept) |-> Rem(kept[i], cwd)]
\* dirs, a HashSet: the first part of the remainders that hold a '/'
ZipDirNames(members, cwd) ==
    { ZipKept(members, cwd)[i][1] :
        i \in { j \in 1..Len(ZipKept(members, cwd)) :
                   Len(ZipKept(members, cwd)[j]) > 1 } }
\* ZipIsFile taking every remainder for a file
ZipIsFileAny(r) == TRUE
\* files, a Vec: the remainders that hold no '/', one per member
ZipIsFile(r) == Len(r) = 1
ZipFileNames(members, cwd) ==
    LET rems == SelectSeq(ZipKept(members, cwd), ZipIsFile)
    IN [i \in 1..Len(rems) |-> rems[i][1]]

\* ZipParentEntry always pointing at the root of the archive
ZipParentEntryRoot(ap, cwd) ==
    << DirEntry("..", TRUE, ZipLoc(ap, << >>)) >>

\* the ".." row of an archive directory
ZipParentEntry(ap, cwd) ==
    IF cwd # << >>
    THEN << DirEntry("..", TRUE, ZipLoc(ap, Parent(cwd))) >>
    ELSE IF HasParent(ap)
         THEN << DirEntry("..", TRUE, FsLoc(Parent(ap))) >>
         ELSE << >>

\* read_zip_directory_of listing the files before the directories
read_zip_directory_files_first(members, ap, cwd) ==
    LET dirs == SortNames(ZipDirNames(members, cwd))
        files == SortSeq(ZipFileNames(members, cwd), NameLess)
    IN ZipParentEntry(ap, cwd)
       \o [i \in 1..Len(files) |->
             DirEntry(files[i], FALSE, ZipLoc(ap, Append(cwd, files[i])))]
       \o [i \in 1..Len(dirs) |->
             DirEntry(dirs[i], TRUE, ZipLoc(ap, Append(cwd, dirs[i])))]

\* read_zip_directory on an archive that holds members
read_zip_directory_of(members, ap, cwd) ==
    LET dirs == SortNames(ZipDirNames(members, cwd))
        files == SortSeq(ZipFileNames(members, cwd), NameLess)
    IN ZipParentEntry(ap, cwd)
       \o [i \in 1..Len(dirs) |->
             DirEntry(dirs[i], TRUE, ZipLoc(ap, Append(cwd, dirs[i])))]
       \o [i \in 1..Len(files) |->
             DirEntry(files[i], FALSE, ZipLoc(ap, Append(cwd, files[i])))]

read_zip_directory(ap, cwd) == read_zip_directory_of(ZipMembers(ap), ap, cwd)

\* the entries a read_dir cursor on p yields, in its order
ReadDirEntries(p) ==
    [i \in 1..Len(FsChildren(p)) |->
        DirEntry(FsChildren(p)[i].name, FsChildren(p)[i].is_dir,
                 FsLoc(Append(p, FsChildren(p)[i].name)))]

\* read_fs_directory sorting by name alone
EntryLessByName(a, b) == NameLess(a.name, b.name)

\* sort_by(|a, b| b.is_dir.cmp(&a.is_dir).then_with(|| a.name.cmp(&b.name)))
EntryLess(a, b) ==
    \/ a.is_dir /\ ~b.is_dir
    \/ a.is_dir = b.is_dir /\ NameLess(a.name, b.name)

\* read_fs_directory(path) when read_dir yields children, in that order
read_fs_directory(path, children) ==
    LET dir_entries ==
            SortSeq([i \in 1..Len(children) |->
                        DirEntry(children[i].name, children[i].is_dir,
                                 FsLoc(Append(path, children[i].name)))],
                    EntryLess)
    IN (IF HasParent(path)
        THEN << DirEntry("..", TRUE, FsLoc(Parent(path))) >>
        ELSE << >>) \o dir_entries

(***************************************************************************)
(* is_probably_text.  The ratio is an f32: a quotient of two small         *)
(* integers rounded to the nearest multiple of 2^-24 (ties to even), which *)
(* is what f32 division returns for quotients in [1/2, 1]; smaller         *)
(* quotients are rounded more finely by the machine and stay below 1/2.    *)
(* RatioF32 counts in units of 2^-24, F32Scale is 2^24 and F32Threshold    *)
(* the f32 nearest to 0.85 in those units.                                 *)
(***************************************************************************)
RatioF32(p, n) ==
    LET num == p * F32Scale
        q == num \div n
        r == num % n
    IN IF 2 * r > n \/ (2 * r = n /\ q % 2 = 1) THEN q + 1 ELSE q

\* tab, LF, CR and visible ASCII
IsPrintable(b) == b \in {9, 10, 13} \/ (b >= 32 /\ b <= 126)

Printable(bytes) == Cardinality({ i \in 1..Len(bytes) : IsPrintable(bytes[i]) })

\* is_probably_text taking the threshold itself for text
is_probably_text_ge(bytes) ==
    IF bytes = << >> THEN TRUE
    ELSE IF \E i \in 1..Len(bytes) : bytes[i] = 0 THEN FALSE
    ELSE RatioF32(Printable(bytes), Max(Len(bytes), 1)) >= F32Threshold

is_probably_text(bytes) ==
    IF bytes = << >> THEN TRUE
    ELSE IF \E i \in 1..Len(bytes) : bytes[i] = 0 THEN FALSE
    ELSE RatioF32(Printable(bytes), Max(Len(bytes), 1)) > F32Threshold
(***************************************************************************)
(* hexdump(bytes).  A String is the sequence of the code points of its     *)
(* characters: 32 is ' ', 46 '.', 58 ':', 10 the line feed, 48..57 the     *)
(* digits and 97..102 the letters a..f.                                    *)
(***************************************************************************)
HexDigit(d) == IF d < 10 THEN 48 + d ELSE 87 + d

\* format!("{:0width$x}", n) for n below 16^width
HexFormat(n, width) ==
    [i \in 1..width |-> HexDigit((n \div (16 ^ (width - i))) % 16)]

\* the character of the ASCII column showing the tab as it is
HexAsciiTab(b) == IF (b >= 32 /\ b <= 126) \/ b = 9 THEN b ELSE 46

\* the character of the ASCII column for byte b
HexAscii(b) == IF b >= 32 /\ b <= 126 THEN b ELSE 46

\* the cell of byte i (from 0) of a chunk: its pair and a space, or three
\* spaces, and one more space after the cell of byte 7
HexCell(chunk, i) ==
    (IF i < Len(chunk) THEN HexFormat(chunk[i + 1], 2) \o << 32 >>
     ELSE << 32, 32, 32 >>)
    \o (IF i = 7 THEN << 32 >> ELSE << >>)

HexLine(chunk, offset) ==
    HexFormat(offset, 8) \o << 58, 32 >>
    \o Flatten([i \in 1..16 |-> HexCell(chunk, i - 1)])
    \o << 32 >>
    \o [i \in 1..Len(chunk) |-> HexAscii(chunk[i])]
    \o << 10 >>

hexdump(bytes) ==
    Flatten([k \in 1..((Len(bytes) + 15) \div 16) |->
               HexLine(SubSeq(bytes, 16 * (k - 1) + 1, Min(16 * k, Len(bytes))),
                       16 * (k - 1))])



\* outcomes fs::read_dir(p) and ZipArchive::new may have: the directory d
\* and the archive may fail to open at any call, the root never does
Flaky == {DirD}
ReadDirOutcomes(p) ==
    IF p \in Flaky THEN BOOLEAN ELSE IF p \in FsDirs THEN {TRUE} ELSE {FALSE}
ZipOpenOutcomes(ap) == IF ZipMembers(ap) # << >> THEN BOOLEAN ELSE {FALSE}

\* Vec::iter().take(n) and the slice [n..]
Take(s, n) == SubSeq(s, 1, Min(n, Len(s)))
Drop(s, n) == SubSeq(s, Min(n, Len(s)) + 1, Len(s))

(***************************************************************************)
(* State.                                                                  *)
(***************************************************************************)
VARIABLES
    panel,                  \* left_panel and right_panel, by side
    active_panel,           \* the side that has the focus
    preview,                \* Option<PreviewContent>
    fs_last_selected_name,  \* HashMap<PathBuf, String>
    zip_last_selected_name, \* HashMap<(PathBuf, String), String>
    chans,                  \* the mpsc channels created so far with their threads
    io_tx,                  \* the channel of IOTasks with the worker behind it
    height,                 \* viewport height the scroll handles report
    pc,                     \* position of the UI thread inside render
    opens,                  \* open_selected calls made so far on a shown entry
    call,                   \* the call of a reader or classifier under study
    trip                    \* history: the round trip the user is making

vars == << panel, active_panel, preview, fs_last_selected_name,
           zip_last_selected_name, chans, io_tx, height, pc, opens, call,
           trip >>

\* the model as one value, for the methods that take &mut self
State == [panel |-> panel, active_panel |-> active_panel, preview |-> preview,
          fs_last_selected_name |-> fs_last_selected_name,
          zip_last_selected_name |-> zip_last_selected_name,
          chans |-> chans, io_tx |-> io_tx]

Becomes(s) ==
    /\ panel' = s.panel
    /\ active_panel' = s.active_panel
    /\ preview' = s.preview
    /\ fs_last_selected_name' = s.fs_last_selected_name
    /\ zip_last_selected_name' = s.zip_last_selected_name
    /\ chans' = s.chans
    /\ io_tx' = s.io_tx

\* no reader or classifier is under study
NoCall == [op |-> "none"]

\* HashMap::get and HashMap::insert
MapGet(m, k) == IF k \in DOMAIN m THEN Some(m[k]) ELSE None
MapInsert(m, k, v) == [x \in DOMAIN m \cup {k} |-> IF x = k THEN v ELSE m[x]]
EmptyMap == [x \in {} |-> x]

\* Option::or_else
OrElse(a, b) == IF a # None THEN a ELSE b

\* compute_window_rows: rows of the viewport, 10 while it is not laid out
\* compute_window_rows without the lower limit of one row
compute_window_rows_floor(h) ==
    IF h <= 0 \/ RowPx <= 0 THEN FallbackRows ELSE h \div RowPx

compute_window_rows(h) ==
    IF h <= 0 \/ RowPx <= 0 THEN FallbackRows ELSE Max(h \div RowPx, 1)

(***************************************************************************)
(* Channels.  A channel is the queue of batches in flight, whether a       *)
(* Sender is still alive (tx), and the state of the thread that owns the   *)
(* Sender: st = "open" before its read_dir, "send" while it streams todo,  *)
(* "done" once it has returned.  sent is the history of the batches the    *)
(* navigation produced, in the order of their send calls, page the first   *)
(* page the navigation sent at once (none: << >>), target the panel the    *)
(* navigation was started for, refused whether the read the navigation     *)
(* began with returned an error, failed whether any read of the            *)
(* navigation did, and hint the prefer_name the navigation was called with.*)
(***************************************************************************)
Channel(queue, tx, st, path, todo, target, failed) ==
    [queue |-> queue, tx |-> tx, st |-> st, path |-> path, todo |-> todo,
     sent |-> queue, page |-> IF queue = << >> THEN << >> ELSE queue[1],
     target |-> target, refused |-> failed, failed |-> failed, hint |-> None]

\* dropping a Receiver frees what is still queued; later sends fail
DropRx(cs, rx) ==
    IF rx = None THEN cs ELSE [cs EXCEPT ![rx[1]].queue = << >>]

\* whether some panel still holds the Receiver of channel c
RxHeld(c) == \E sd \in Side : panel[sd].entries_rx = Some(c)

\* Receiver::try_recv on channel ch
TryRecv(ch) ==
    IF ch.queue # << >> THEN "Ok"
    ELSE IF ch.tx THEN "Empty" ELSE "Disconnected"

(***************************************************************************)
(* load_fs_directory_async(path, target_panel, prefer_name) where ok is    *)
(* the outcome of the immediate fs::read_dir.                              *)
(***************************************************************************)
FsInitial(path) ==
    IF HasParent(path)
    THEN << DirEntry("..", TRUE, FsLoc(Parent(path))) >>
    ELSE << >>

\* the snapshot loop: up to SnapshotLen entries from the cursor
FsSnapshot(path) == Take(ReadDirEntries(path), SnapshotLen)

\* the channel and the thread the function leaves behind: both branches
\* spawn a thread that opens its own cursor on the directory
FsChannel(path, ok, target) ==
    Channel(IF ok /\ FsSnapshot(path) # << >> THEN << FsSnapshot(path) >>
            ELSE << >>,
            TRUE, "open", path, << >>, target, ~ok)

\* load_fs_directory_async keeping a queue the panel still holds
load_fs_directory_keep(s, path, target_panel, prefer_name, ok) ==
    LET remembered == OrElse(prefer_name, MapGet(s.fs_last_selected_name, path))
        old == s.panel[target_panel]
        id == Len(s.chans) + 1
    IN [s EXCEPT
          !.chans = Append(s.chans, FsChannel(path, ok, target_panel)),
          !.panel[target_panel] =
              [old EXCEPT !.current_path = path,
                          !.mode = FsMode,
                          !.entries = FsInitial(path),
                          !.selected_index = 0,
                          !.top_index = 0,
                          !.entries_rx = IF old.entries_rx # None
                                         THEN old.entries_rx ELSE Some(id),
                          !.prefer_select_name = remembered]]

\* load_fs_directory_async leaving the window where it was
load_fs_directory_scrolled(s, path, target_panel, prefer_name, ok) ==
    LET remembered == OrElse(prefer_name, MapGet(s.fs_last_selected_name, path))
        old == s.panel[target_panel]
        id == Len(s.chans) + 1
    IN [s EXCEPT
          !.chans = Append(DropRx(s.chans, old.entries_rx),
                           [FsChannel(path, ok, target_panel)
                               EXCEPT !.hint = prefer_name]),
          !.panel[target_panel] =
              [old EXCEPT !.current_path = path,
                          !.mode = FsMode,
                          !.entries = FsInitial(path),
                          !.selected_index = 0,
                          !.entries_rx = Some(id),
                          !.prefer_select_name = remembered]]

load_fs_directory_async(s, path, target_panel, prefer_name, ok) ==
    LET remembered == OrElse(prefer_name, MapGet(s.fs_last_selected_name, path))
        old == s.panel[target_panel]
        id == Len(s.chans) + 1
    IN [s EXCEPT
          !.chans = Append(DropRx(s.chans, old.entries_rx),
                           [FsChannel(path, ok, target_panel)
                               EXCEPT !.hint = prefer_name]),
          !.panel[target_panel] =
              [old EXCEPT !.current_path = path,
                          !.mode = FsMode,
                          !.entries = FsInitial(path),
                          !.selected_index = 0,
                          !.top_index = 0,
                          !.entries_rx = Some(id),
                          !.prefer_select_name = remembered]]

(***************************************************************************)
(* load_zip_directory_async(archive_path, cwd, target_panel, prefer_name)  *)
(* where ok is the outcome of read_zip_directory.                          *)
(***************************************************************************)
\* the listing with its leading ".." removed
ZipAll(ap, cwd) ==
    LET all == read_zip_directory(ap, cwd)
    IN IF all # << >> /\ all[1].name = ".." THEN Tail(all) ELSE all

\* ZipChannel streaming the listing whatever read_zip_directory returned
ZipChannelAlways(ap, cwd, ok, target) ==
    Channel(IF Take(ZipAll(ap, cwd), SnapshotLen) # << >>
            THEN << Take(ZipAll(ap, cwd), SnapshotLen) >> ELSE << >>,
            TRUE, "send", ap, Drop(ZipAll(ap, cwd), SnapshotLen), target, ~ok)

\* Ok: the first page is sent and a thread streams the rest from memory;
\* Err: nothing is sent and the Sender is dropped when the function returns
ZipChannel(ap, cwd, ok, target) ==
    IF ok
    THEN Channel(IF Take(ZipAll(ap, cwd), SnapshotLen) # << >>
                 THEN << Take(ZipAll(ap, cwd), SnapshotLen) >> ELSE << >>,
                 TRUE, "send", ap, Drop(ZipAll(ap, cwd), SnapshotLen), target,
                 FALSE)
    ELSE Channel(<< >>, FALSE, "done", ap, << >>, target, TRUE)

\* load_zip_directory_async leaving the panel alone when the archive does not
\* open
load_zip_directory_strict(s, archive_path, cwd, target_panel, prefer_name, ok) ==
    LET remembered == OrElse(prefer_name,
                             MapGet(s.zip_last_selected_name, << archive_path, cwd >>))
        old == s.panel[target_panel]
        id == Len(s.chans) + 1
    IN IF ~ok THEN s
       ELSE [s EXCEPT
          !.chans = Append(DropRx(s.chans, old.entries_rx),
                           [ZipChannel(archive_path, cwd, ok, target_panel)
                               EXCEPT !.hint = prefer_name]),
          !.panel[target_panel] =
              [old EXCEPT !.current_path = archive_path,
                          !.mode = ZipMode(archive_path, cwd),
                          !.entries = ZipParentEntry(archive_path, cwd),
                          !.selected_index = 0,
                          !.top_index = 0,
                          !.entries_rx = Some(id),
                          !.prefer_select_name = remembered]]

load_zip_directory_async(s, archive_path, cwd, target_panel, prefer_name, ok) ==
    LET remembered == OrElse(prefer_name,
                             MapGet(s.zip_last_selected_name, << archive_path, cwd >>))
        old == s.panel[target_panel]
        id == Len(s.chans) + 1
    IN [s EXCEPT
          !.chans = Append(DropRx(s.chans, old.entries_rx),
                           [ZipChannel(archive_path, cwd, ok, target_panel)
                               EXCEPT !.hint = prefer_name]),
          !.panel[target_panel] =
              [old EXCEPT !.current_path = archive_path,
                          !.mode = ZipMode(archive_path, cwd),
                          !.entries = ZipParentEntry(archive_path, cwd),
                          !.selected_index = 0,
                          !.top_index = 0,
                          !.entries_rx = Some(id),
                          !.prefer_select_name = remembered]]

(***************************************************************************)
(* Selection and preview.                                                  *)
(***************************************************************************)
\* KeepVisible scrolling down one row short of the selection
KeepVisibleShort(p, window_rows) ==
    IF p.selected_index < p.top_index
    THEN [p EXCEPT !.top_index = p.selected_index]
    ELSE IF p.selected_index >= p.top_index + window_rows
         THEN [p EXCEPT !.top_index = p.selected_index - window_rows]
         ELSE p

\* the window adjustment shared by select_entry and the pump
KeepVisible(p, window_rows) ==
    IF p.selected_index < p.top_index
    THEN [p EXCEPT !.top_index = p.selected_index]
    ELSE IF p.selected_index >= p.top_index + window_rows
         THEN [p EXCEPT !.top_index = p.selected_index + 1 - window_rows]
         ELSE p

\* Result<Vec<u8>>
Ok(bytes) == [ok |-> TRUE, bytes |-> bytes]
Err == [ok |-> FALSE, bytes |-> << >>]

\* read_bytes_prefix: the files of this environment that open hold a few
\* bytes; x cannot be read, h is empty, a.zip holds NUL bytes
read_bytes_prefix(path) ==
    IF FileName(path) = Some("x") THEN Err
    ELSE IF FileName(path) = Some("h") THEN Ok(<< >>)
    ELSE IF FileName(path) = Some("a.zip") THEN Ok(<< 80, 75, 3, 4, 0, 0 >>)
    ELSE Ok(<< 104, 105, 10 >>)

\* the bytes of the members of the archive: s/n cannot be read, s/m is
\* binary without a NUL byte
ZipMemberRead(inner) ==
    IF inner = << "s", "n" >> THEN Err
    ELSE IF inner = << "s", "m" >> THEN Ok(<< 1, 2, 3, 65 >>)
    ELSE Ok(<< 111, 107 >>)

\* read_zip_bytes_prefix: scan the names for inner_path, then read
read_zip_bytes_prefix(ap, inner) ==
    IF \E k \in 1..Len(ZipMembers(ap)) : ZipMembers(ap)[k] = inner
    THEN ZipMemberRead(inner)
    ELSE Err

\* the payload a preview of entry e has: its variant, the item it is of, and
\* what it shows: the image, the text, a hex dump or an error message
PreviewOf(e) ==
    IF e.location.kind = "Fs" /\ is_image_path(e.location.path)
    THEN [kind |-> "Image", of |-> e.location, shows |-> "image"]
    ELSE LET r == IF e.location.kind = "Fs"
                  THEN read_bytes_prefix(e.location.path)
                  ELSE read_zip_bytes_prefix(e.location.path, e.location.inner_path)
         IN [kind |-> "Text", of |-> e.location,
             shows |-> IF ~r.ok THEN "error"
                       ELSE IF is_probably_text(r.bytes) THEN "text"
                       ELSE "hexdump"]

\* update_preview_for_current_selection showing nothing when the read fails
update_preview_or_none(s) ==
    LET p == s.panel[s.active_panel]
    IN IF p.entries = << >> THEN [s EXCEPT !.preview = None]
       ELSE IF At(p.entries, p.selected_index).is_dir
            THEN [s EXCEPT !.preview = None]
            ELSE IF PreviewOf(At(p.entries, p.selected_index)).shows = "error"
                 THEN [s EXCEPT !.preview = None]
                 ELSE [s EXCEPT !.preview =
                          Some(PreviewOf(At(p.entries, p.selected_index)))]

update_preview_for_current_selection(s) ==
    LET p == s.panel[s.active_panel]
    IN IF p.entries = << >> THEN [s EXCEPT !.preview = None]
       ELSE IF At(p.entries, p.selected_index).is_dir
            THEN [s EXCEPT !.preview = None]
            ELSE [s EXCEPT !.preview = Some(PreviewOf(At(p.entries, p.selected_index)))]

\* select_entry accepting the index one past the last row
select_entry_past(s, index, h) ==
    LET p == s.panel[s.active_panel]
    IN IF index <= Len(p.entries)
       THEN LET s1 == [s EXCEPT !.panel[s.active_panel] =
                          KeepVisible([p EXCEPT !.selected_index = index],
                                      compute_window_rows(h))]
            IN IF s1.preview # None
               THEN update_preview_for_current_selection(s1)
               ELSE s1
       ELSE s

\* select_entry working on the left panel whichever panel is active
select_entry_left(s, index, h) ==
    LET p == s.panel["Left"]
    IN IF index < Len(p.entries)
       THEN LET s1 == [s EXCEPT !.panel["Left"] =
                          KeepVisible([p EXCEPT !.selected_index = index],
                                      compute_window_rows(h))]
            IN IF s1.preview # None
               THEN update_preview_for_current_selection(s1)
               ELSE s1
       ELSE s

\* select_entry putting the selected row at the top of the window
select_entry_top(s, index, h) ==
    LET p == s.panel[s.active_panel]
    IN IF index < Len(p.entries)
       THEN LET s1 == [s EXCEPT !.panel[s.active_panel] =
                          [p EXCEPT !.selected_index = index,
                                    !.top_index = index]]
            IN IF s1.preview # None
               THEN update_preview_for_current_selection(s1)
               ELSE s1
       ELSE s

select_entry(s, index, h) ==
    LET p == s.panel[s.active_panel]
    IN IF index < Len(p.entries)
       THEN LET s1 == [s EXCEPT !.panel[s.active_panel] =
                          KeepVisible([p EXCEPT !.selected_index = index],
                                      compute_window_rows(h))]
            IN IF s1.preview # None
               THEN update_preview_for_current_selection(s1)
               ELSE s1
       ELSE s

toggle_preview(s) ==
    IF s.preview # None THEN [s EXCEPT !.preview = None]
    ELSE update_preview_for_current_selection(s)

\* switch_panel with both arms of its match giving the right panel
switch_panel_right(s) == [s EXCEPT !.active_panel = "Right"]

switch_panel(s) == [s EXCEPT !.active_panel = Other(s.active_panel)]

select_entry_by_name(s, which, name) ==
    LET idx == Position(s.panel[which].entries, name)
    IN IF idx # None THEN [s EXCEPT !.panel[which].selected_index = idx[1]]
       ELSE s

\* store_current_selection_memory writing to the filesystem map in any mode
store_current_selection_fs(s) ==
    LET p == s.panel[s.active_panel]
    IN IF p.entries = << >> THEN s
       ELSE [s EXCEPT !.fs_last_selected_name =
                MapInsert(@, p.current_path, At(p.entries, p.selected_index).name)]

store_current_selection_memory(s) ==
    LET p == s.panel[s.active_panel]
    IN IF p.entries = << >> THEN s
       ELSE LET selected_name == At(p.entries, p.selected_index).name
            IN IF p.mode.kind = "Fs"
               THEN [s EXCEPT !.fs_last_selected_name =
                        MapInsert(@, p.current_path, selected_name)]
               ELSE [s EXCEPT !.zip_last_selected_name =
                        MapInsert(@, << p.mode.archive_path, p.mode.cwd >>,
                                  selected_name)]

(***************************************************************************)
(* open_selected, where ok is the outcome of the read the navigation it    *)
(* starts begins with.                                                     *)
(***************************************************************************)
\* cwd.trim_end_matches('/').rsplit('/').next(): the last segment, "" of ""
LastSegment(cwd) == IF cwd = << >> THEN Some("") ELSE Some(cwd[Len(cwd)])

open_selected(s, ok) ==
    LET active == s.active_panel
        p == s.panel[active]
    IN IF p.entries = << >> THEN s
       ELSE
       LET e == At(p.entries, p.selected_index)
           current_path == p.current_path
           zip_cwd == IF p.mode.kind = "Zip" THEN Some(p.mode.cwd) ELSE None
           s1 == store_current_selection_memory(s)
       IN IF e.location.kind = "Fs"
          THEN IF e.is_dir
               THEN LET path == e.location.path
                        prefer_name == IF e.name = ".." THEN FileName(current_path)
                                       ELSE None
                        s2 == load_fs_directory_async(s1, path, active, prefer_name, ok)
                        name == MapGet(s2.fs_last_selected_name, path)
                    IN IF e.name # ".." /\ name # None
                       THEN select_entry_by_name(s2, active, name[1])
                       ELSE s2
               ELSE IF is_zip_path(e.location.path)
                    THEN load_zip_directory_async(s1, e.location.path, << >>,
                                                  active, None, ok)
                    ELSE s1
          ELSE IF e.is_dir
               THEN LET archive_path == e.location.path
                        inner_path == e.location.inner_path
                        prefer_name == IF e.name = ".."
                                       THEN IF zip_cwd # None
                                            THEN LastSegment(zip_cwd[1]) ELSE None
                                       ELSE None
                        s2 == load_zip_directory_async(s1, archive_path, inner_path,
                                                       active, prefer_name, ok)
                        name == MapGet(s2.zip_last_selected_name,
                                       << archive_path, inner_path >>)
                    IN IF e.name # ".." /\ name # None
                       THEN select_entry_by_name(s2, active, name[1])
                       ELSE s2
               ELSE s1

\* whether open_selected starts a navigation in s, and what its read may give
Navigates(s) ==
    LET p == s.panel[s.active_panel]
    IN /\ p.entries # << >>
       /\ LET e == At(p.entries, p.selected_index)
          IN e.is_dir \/ (e.location.kind = "Fs" /\ is_zip_path(e.location.path))
OpenOutcomes(s) ==
    IF ~Navigates(s) THEN {TRUE}
    ELSE LET p == s.panel[s.active_panel]
             e == At(p.entries, p.selected_index)
         IN IF e.location.kind = "Fs" /\ e.is_dir
            THEN ReadDirOutcomes(e.location.path)
            ELSE ZipOpenOutcomes(e.location.path)

(***************************************************************************)
(* The pump of render_panel: its two model updates.                        *)
(***************************************************************************)
\* the first update: receive once and restore the preferred selection
PumpFirst(s, side, h) ==
    LET p == s.panel[side]
    IN IF p.entries_rx = None THEN s
       ELSE
       LET c == p.entries_rx[1]
           ch == s.chans[c]
           r == TryRecv(ch)
       IN IF r = "Ok"
          THEN LET p1 == [p EXCEPT !.entries = @ \o Head(ch.queue),
                                   !.entries_rx = None]
                   pref == p1.prefer_select_name
                   p2 == [p1 EXCEPT !.prefer_select_name = None]
                   idx == IF pref # None THEN Position(p2.entries, pref[1]) ELSE None
                   p3 == IF idx # None
                         THEN KeepVisible([p2 EXCEPT !.selected_index = idx[1]],
                                          compute_window_rows(h))
                         ELSE p2
               IN [s EXCEPT !.panel[side] = p3,
                            !.chans = DropRx([@ EXCEPT ![c].queue = Tail(ch.queue)],
                                             Some(c))]
          ELSE IF r = "Empty" THEN s
          ELSE [s EXCEPT !.panel[side].entries_rx = None]

\* PumpSecond putting a received batch in front of the list
PumpSecondFront(s, side, h) ==
    LET window_rows == compute_window_rows(h)
        p1 == KeepVisible(s.panel[side], window_rows)
        visible == Max(window_rows, 1)
        max_top == SatSub(Len(p1.entries), visible)
        p2 == IF p1.top_index > max_top THEN [p1 EXCEPT !.top_index = max_top]
              ELSE p1
        p3 == IF p2.entries # << >> /\ p2.selected_index >= Len(p2.entries)
              THEN [p2 EXCEPT !.selected_index = Len(p2.entries) - 1]
              ELSE p2
    IN IF p3.entries_rx = None THEN [s EXCEPT !.panel[side] = p3]
       ELSE
       LET c == p3.entries_rx[1]
           ch == s.chans[c]
           r == TryRecv(ch)
       IN IF r = "Ok"
          THEN [s EXCEPT !.panel[side] = [p3 EXCEPT !.entries = Head(ch.queue) \o @],
                         !.chans[c].queue = Tail(ch.queue)]
          ELSE IF r = "Empty" THEN [s EXCEPT !.panel[side] = p3]
          ELSE [s EXCEPT !.panel[side] = [p3 EXCEPT !.entries_rx = None]]

\* PumpSecond moving the cursor to the last row of every list
PumpSecondLock(s, side, h) ==
    LET window_rows == compute_window_rows(h)
        p1 == KeepVisible(s.panel[side], window_rows)
        visible == Max(window_rows, 1)
        max_top == SatSub(Len(p1.entries), visible)
        p2 == IF p1.top_index > max_top THEN [p1 EXCEPT !.top_index = max_top]
              ELSE p1
        p3 == IF p2.entries # << >>
              THEN [p2 EXCEPT !.selected_index = Len(p2.entries) - 1]
              ELSE p2
    IN IF p3.entries_rx = None THEN [s EXCEPT !.panel[side] = p3]
       ELSE
       LET c == p3.entries_rx[1]
           ch == s.chans[c]
           r == TryRecv(ch)
       IN IF r = "Ok"
          THEN [s EXCEPT !.panel[side] = [p3 EXCEPT !.entries = @ \o Head(ch.queue)],
                         !.chans[c].queue = Tail(ch.queue)]
          ELSE IF r = "Empty" THEN [s EXCEPT !.panel[side] = p3]
          ELSE [s EXCEPT !.panel[side] = [p3 EXCEPT !.entries_rx = None]]

\* PumpSecond keeping one row more than the viewport below the top
PumpSecondLow(s, side, h) ==
    LET window_rows == compute_window_rows(h)
        p1 == KeepVisible(s.panel[side], window_rows)
        visible == Max(window_rows, 1)
        max_top == SatSub(Len(p1.entries), visible + 1)
        p2 == IF p1.top_index > max_top THEN [p1 EXCEPT !.top_index = max_top]
              ELSE p1
        p3 == IF p2.entries # << >> /\ p2.selected_index >= Len(p2.entries)
              THEN [p2 EXCEPT !.selected_index = Len(p2.entries) - 1]
              ELSE p2
    IN IF p3.entries_rx = None THEN [s EXCEPT !.panel[side] = p3]
       ELSE
       LET c == p3.entries_rx[1]
           ch == s.chans[c]
           r == TryRecv(ch)
       IN IF r = "Ok"
          THEN [s EXCEPT !.panel[side] = [p3 EXCEPT !.entries = @ \o Head(ch.queue)],
                         !.chans[c].queue = Tail(ch.queue)]
          ELSE IF r = "Empty" THEN [s EXCEPT !.panel[side] = p3]
          ELSE [s EXCEPT !.panel[side] = [p3 EXCEPT !.entries_rx = None]]

\* the second update: keep the selection visible, clamp, receive once more
PumpSecond(s, side, h) ==
    LET window_rows == compute_window_rows(h)
        p1 == KeepVisible(s.panel[side], window_rows)
        visible == Max(window_rows, 1)
        max_top == SatSub(Len(p1.entries), visible)
        p2 == IF p1.top_index > max_top THEN [p1 EXCEPT !.top_index = max_top]
              ELSE p1
        p3 == IF p2.entries # << >> /\ p2.selected_index >= Len(p2.entries)
              THEN [p2 EXCEPT !.selected_index = Len(p2.entries) - 1]
              ELSE p2
    IN IF p3.entries_rx = None THEN [s EXCEPT !.panel[side] = p3]
       ELSE
       LET c == p3.entries_rx[1]
           ch == s.chans[c]
           r == TryRecv(ch)
       IN IF r = "Ok"
          THEN [s EXCEPT !.panel[side] = [p3 EXCEPT !.entries = @ \o Head(ch.queue)],
                         !.chans[c].queue = Tail(ch.queue)]
          ELSE IF r = "Empty" THEN [s EXCEPT !.panel[side] = p3]
          ELSE [s EXCEPT !.panel[side] = [p3 EXCEPT !.entries_rx = None]]

\* on_scroll_wheel taking the cursor along to the top row
on_scroll_wheel_cursor(s, side, rows, h) ==
    LET p == s.panel[side]
        window_rows == compute_window_rows(h)
        top == IF rows > 0 THEN p.top_index + rows ELSE SatSub(p.top_index, 0 - rows)
        max_top == SatSub(Len(p.entries), Max(window_rows, 1))
        new_top == IF top > max_top THEN max_top ELSE top
    IN [s EXCEPT !.panel[side].top_index = new_top,
                 !.panel[side].selected_index = new_top]

\* on_scroll_wheel without the clamp to max_top
on_scroll_wheel_free(s, side, rows, h) ==
    LET p == s.panel[side]
        top == IF rows > 0 THEN p.top_index + rows ELSE SatSub(p.top_index, 0 - rows)
    IN [s EXCEPT !.panel[side].top_index = top]

\* the on_scroll_wheel listener of the list of panel side, rows in {3, 0, -3}
on_scroll_wheel(s, side, rows, h) ==
    LET p == s.panel[side]
        window_rows == compute_window_rows(h)
        top == IF rows > 0 THEN p.top_index + rows ELSE SatSub(p.top_index, 0 - rows)
        max_top == SatSub(Len(p.entries), Max(window_rows, 1))
    IN [s EXCEPT !.panel[side].top_index = IF top > max_top THEN max_top ELSE top]

(***************************************************************************)
(* The background thread of a navigation, one step at a time.              *)
(***************************************************************************)
\* fs::read_dir(&path_clone) of the thread: a fresh cursor on the directory
ThreadOpen(ch, ok) ==
    [ch EXCEPT !.st = "send",
               !.todo = IF ok THEN ReadDirEntries(ch.path) ELSE << >>,
               !.failed = @ \/ ~ok]

\* the chunks the loop still sends: full chunks, then what is left
RECURSIVE Chunks(_)
Chunks(todo) ==
    IF todo = << >> THEN << >>
    ELSE << Take(todo, Chunk) >> \o Chunks(Drop(todo, Chunk))

\* tx.send of the next chunk.  With the Receiver gone every send fails and
\* touches nothing shared, so the rest of the loop is one step.
ThreadSend(ch, held) ==
    IF held
    THEN [ch EXCEPT !.queue = Append(@, Take(ch.todo, Chunk)),
                    !.sent = Append(@, Take(ch.todo, Chunk)),
                    !.todo = Drop(ch.todo, Chunk)]
    ELSE [ch EXCEPT !.sent = @ \o Chunks(ch.todo),
                    !.todo = << >>]

\* the closure returns and drops the Sender
ThreadExit(ch) == [ch EXCEPT !.st = "done", !.tx = FALSE]

(***************************************************************************)
(* History of a round trip, kept for SpecNav only (phase "off" in Spec):   *)
(* "in" while the user is in a directory, x the name of the item the       *)
(* cursor was last put on there (the ".." row, which the cursor has to     *)
(* be on to leave, is no item); "out" once the user has left that          *)
(* directory dir through ".."; "back" once the user has opened dir again   *)
(* from its parent.                                                        *)
(***************************************************************************)
TripOff == [phase |-> "off", x |-> None, dir |-> None]
TripIn(x) == [phase |-> "in", x |-> x, dir |-> None]

\* the place a panel shows, and the place opening entry e leads to
PlaceOf(p) == << p.mode.kind, p.current_path, p.mode.cwd >>
TargetOf(e) ==
    IF e.location.kind = "Fs"
    THEN IF e.is_dir THEN << "Fs", e.location.path, << >> >>
         ELSE << "Zip", e.location.path, << >> >>
    ELSE << "Zip", e.location.path, e.location.inner_path >>

\* after a selection command that put the cursor on a row (hit) in s
TripSelect(tr, s, hit) ==
    IF tr.phase \in {"off", "out"} \/ ~hit THEN tr
    ELSE LET p == s.panel[s.active_panel]
             n == At(p.entries, p.selected_index).name
         IN IF n # ".." THEN TripIn(Some(n))
            ELSE IF tr.phase = "back" THEN TripIn(None) ELSE tr

\* at an open_selected call in s
TripOpen(tr, s) ==
    IF tr.phase = "off" \/ ~Navigates(s) THEN tr
    ELSE LET p == s.panel[s.active_panel]
             e == At(p.entries, p.selected_index)
         IN IF tr.phase = "in" /\ tr.x # None /\ e.name = ".."
            THEN [phase |-> "out", x |-> tr.x, dir |-> Some(PlaceOf(p))]
            ELSE IF tr.phase = "out" /\ e.name # ".." /\ tr.dir = Some(TargetOf(e))
                 THEN [tr EXCEPT !.phase = "back"]
                 ELSE TripIn(None)

(***************************************************************************)
(* The copy queue.  io_tx is the channel start_io_worker returns, with the *)
(* thread that receives from it: queue the tasks in flight, alive whether  *)
(* the thread still holds the Receiver, running the task it has received   *)
(* and not finished, done the history of the tasks it has attempted with   *)
(* their outcomes, hist the history of the tasks sent, lost the number of  *)
(* sends that returned an error.                                           *)
(***************************************************************************)
\* IOTask::Copy
Copy(src, dst_dir) == [src |-> src, dst_dir |-> dst_dir]

start_io_worker ==
    [queue |-> << >>, alive |-> TRUE, running |-> None, done |-> << >>,
     hist |-> << >>, lost |-> 0]

\* Sender::send: an error once the Receiver is gone
IoSend(io, task) ==
    IF io.alive
    THEN [io EXCEPT !.queue = Append(@, task), !.hist = Append(@, task)]
    ELSE [io EXCEPT !.lost = @ + 1]

\* enqueue_copy_selected sending whatever mode the other panel is in
enqueue_copy_anywhere(s) ==
    LET p == s.panel[s.active_panel]
        other_panel == s.panel[Other(s.active_panel)]
    IN IF p.entries = << >> THEN s
       ELSE LET loc == At(p.entries, p.selected_index).location
            IN IF loc.kind = "Zip" THEN s
               ELSE [s EXCEPT !.io_tx =
                        IoSend(@, Copy(loc.path, other_panel.current_path))]

enqueue_copy_selected(s) ==
    LET p == s.panel[s.active_panel]
        other_panel == s.panel[Other(s.active_panel)]
    IN IF p.entries = << >> THEN s
       ELSE LET loc == At(p.entries, p.selected_index).location
            IN IF loc.kind = "Zip" THEN s
               ELSE IF other_panel.mode.kind = "Zip" THEN s
               ELSE [s EXCEPT !.io_tx =
                        IoSend(@, Copy(loc.path, other_panel.current_path))]

\* what copy_recursively(src, dst_dir) may do: it unwraps src.file_name()
\* before anything else, and the copy itself may succeed or return an error
copy_recursively(src, dst_dir) ==
    IF FileName(src) = None THEN {"panic"} ELSE {"Ok", "Err"}

\* the worker: rx.recv() takes the oldest task
IoWorkerRecv(io) ==
    [io EXCEPT !.running = Some(Head(io.queue)), !.queue = Tail(io.queue)]

\* the worker: the task ends with outcome r; an error is printed and the
\* loop goes on, a panic unwinds the thread and drops the Receiver with
\* what is queued
IoWorkerDone(io, r) ==
    IF r = "panic"
    THEN [io EXCEPT !.done = Append(@, [task |-> io.running[1], result |-> r]),
                    !.running = None, !.alive = FALSE, !.queue = << >>]
    ELSE [io EXCEPT !.done = Append(@, [task |-> io.running[1], result |-> r]),
                    !.running = None]

(***************************************************************************)
(* Initial state: main has built the model and loaded the starting         *)
(* directory, which it could read, into both panels.                       *)
(***************************************************************************)
NewPanel(cur_dir) ==
    [current_path |-> cur_dir, mode |-> FsMode, selected_index |-> 0,
     entries |-> << >>, entries_rx |-> None, prefer_select_name |-> None,
     top_index |-> 0]

NewModel(cur_dir) ==
    [panel |-> [sd \in Side |-> NewPanel(cur_dir)],
     active_panel |-> "Left",
     preview |-> None,
     fs_last_selected_name |-> EmptyMap,
     zip_last_selected_name |-> EmptyMap,
     chans |-> << >>,
     io_tx |-> start_io_worker]

Started(cur_dir) ==
    LET s == load_fs_directory_async(
               load_fs_directory_async(NewModel(cur_dir), cur_dir, "Left",
                                       None, TRUE),
               cur_dir, "Right", None, TRUE)
    IN /\ panel = s.panel
       /\ active_panel = s.active_panel
       /\ preview = s.preview
       /\ fs_last_selected_name = s.fs_last_selected_name
       /\ zip_last_selected_name = s.zip_last_selected_name
       /\ chans = s.chans
       /\ io_tx = s.io_tx
       /\ height = 0
       /\ pc = "idle"
       /\ opens = 0

\* Spec starts in the root, SpecNav in the root or in d
Init == Started(Root) /\ trip = TripOff /\ call = NoCall
InitNav ==
    /\ \E cur_dir \in {Root, DirD} : Started(cur_dir)
    /\ trip = TripIn(None)
    /\ call = NoCall
\* SpecPreview starts in the root or in g
InitPreview ==
    /\ \E cur_dir \in {Root, DirG} : Started(cur_dir)
    /\ trip = TripOff
    /\ call = NoCall
\* SpecCrafted starts in e, the directory that holds the archive b.zip
InitCrafted == Started(DirE) /\ trip = TripOff /\ call = NoCall
\* SpecLeave starts in g, a directory its parent lists after its first page
InitLeave == Started(DirG) /\ trip = TripOff /\ call = NoCall

(***************************************************************************)
(* Actions.  Commands run on the UI thread between two renders             *)
(* (pc = "idle"); a render pumps the left panel and then the right one,    *)
(* each in two updates; the threads run at any time.                       *)
(***************************************************************************)
Idle == pc = "idle"

\* a command that is no selection and no open
Cmd(s) == Idle /\ Becomes(s) /\ UNCHANGED << call, height, pc, opens, trip >>

\* a selection command: hit tells whether it put the cursor on a row
Sel(s, hit) ==
    /\ Idle
    /\ Becomes(s)
    /\ trip' = TripSelect(trip, s, hit)
    /\ UNCHANGED << call, height, pc, opens >>

\* open_selected returns at once on a panel without entries
Opening(s) == s.panel[s.active_panel].entries # << >>

InRange(i) == i < Len(panel[active_panel].entries)

SelectIndex(i) == Sel(select_entry(State, i, height), InRange(i))

KeyDown ==
    /\ panel[active_panel].selected_index + 1 < Len(panel[active_panel].entries)
    /\ Sel(select_entry(State, panel[active_panel].selected_index + 1, height), TRUE)

KeyUp ==
    /\ panel[active_panel].selected_index > 0
    /\ Sel(select_entry(State, panel[active_panel].selected_index - 1, height),
           InRange(panel[active_panel].selected_index - 1))

page_up(s, h) ==
    LET p == s.panel[s.active_panel]
    IN select_entry(s, SatSub(p.selected_index, compute_window_rows(h)), h)

\* page_down without the clamp to the last row
page_down_free(s, h) ==
    LET p == s.panel[s.active_panel]
    IN select_entry(s, p.selected_index + compute_window_rows(h), h)

page_down(s, h) ==
    LET p == s.panel[s.active_panel]
        len == Len(p.entries)
        new_index == p.selected_index + compute_window_rows(h)
    IN select_entry(s, IF len > 0 /\ new_index >= len THEN len - 1 ELSE new_index, h)

PageUp == Sel(page_up(State, height), panel[active_panel].entries # << >>)
PageDown == Sel(page_down(State, height), panel[active_panel].entries # << >>)

\* the "enter" key, while fewer than max opens were made
OpenSelected(max) ==
    /\ Idle
    /\ Opening(State) => opens < max
    /\ \E ok \in OpenOutcomes(State) : Becomes(open_selected(State, ok))
    /\ opens' = IF Opening(State) THEN opens + 1 ELSE opens
    /\ trip' = TripOpen(trip, State)
    /\ UNCHANGED << call, height, pc >>

\* the "tab" key remembering the selection of the panel it leaves
tab_key_storing(s) ==
    LET s1 == switch_panel(store_current_selection_memory(s))
    IN IF s1.preview # None THEN update_preview_for_current_selection(s1) ELSE s1

\* the "tab" key
tab_key(s) ==
    LET s1 == switch_panel(s)
    IN IF s1.preview # None THEN update_preview_for_current_selection(s1) ELSE s1

SwitchPanel == Cmd(tab_key(State))
TogglePreview == Cmd(toggle_preview(State))
Escape == Cmd([State EXCEPT !.preview = None])

\* a click on a row of the list of panel side; the list of the inactive
\* panel is not shown while a preview is
mouse_down(s, side, real_index, double, ok, h) ==
    LET s1 == [s EXCEPT !.active_panel = side]
        s2 == select_entry(s1, real_index, h)
    IN IF double THEN open_selected(s2, ok) ELSE s2

MouseDown(side, i, double) ==
    /\ Idle
    /\ side = active_panel \/ preview = None
    /\ LET s2 == select_entry([State EXCEPT !.active_panel = side], i, height)
       IN /\ (double /\ Opening(s2)) => opens < MaxOpens
          /\ \E ok \in (IF double THEN OpenOutcomes(s2) ELSE {TRUE}) :
               Becomes(mouse_down(State, side, i, double, ok, height))
          /\ opens' = IF double /\ Opening(s2) THEN opens + 1 ELSE opens
          /\ trip' = LET t1 == TripSelect(trip, s2, i < Len(panel[side].entries))
                     IN IF double THEN TripOpen(t1, s2) ELSE t1
    /\ UNCHANGED << call, height, pc >>

ScrollWheel(side, rows) == Cmd(on_scroll_wheel(State, side, rows, height))

\* render: render_panel(Left) then render_panel(Right), then the layout
\* measures the viewport
RenderLeftFirst ==
    /\ pc = "idle"
    /\ Becomes(PumpFirst(State, "Left", height))
    /\ pc' = "Left2"
    /\ UNCHANGED << call, height, opens, trip >>

RenderLeftSecond ==
    /\ pc = "Left2"
    /\ Becomes(PumpSecond(State, "Left", height))
    /\ pc' = "Right1"
    /\ UNCHANGED << call, height, opens, trip >>

RenderRightFirst ==
    /\ pc = "Right1"
    /\ Becomes(PumpFirst(State, "Right", height))
    /\ pc' = "Right2"
    /\ UNCHANGED << call, height, opens, trip >>

RenderRightSecond ==
    /\ pc = "Right2"
    /\ Becomes(PumpSecond(State, "Right", height))
    /\ pc' = "idle"
    /\ height' \in Heights
    /\ UNCHANGED << call, opens, trip >>

ThreadFrame ==
    UNCHANGED << call, panel, active_panel, preview, fs_last_selected_name,
                 zip_last_selected_name, io_tx, height, pc, opens, trip >>

EnumOpen(c) ==
    /\ chans[c].st = "open"
    /\ \E ok \in ReadDirOutcomes(chans[c].path) :
         chans' = [chans EXCEPT ![c] = ThreadOpen(@, ok)]
    /\ ThreadFrame

\* EnumSend writing its chunk into the list of the panel it was started for
EnumSendDirect(c) ==
    /\ chans[c].st = "send"
    /\ chans[c].todo # << >>
    /\ chans' = [chans EXCEPT ![c] = [ThreadSend(@, RxHeld(c)) EXCEPT !.queue = chans[c].queue]]
    /\ panel' = [panel EXCEPT ![chans[c].target].entries = @ \o Take(chans[c].todo, Chunk)]
    /\ UNCHANGED << call, active_panel, preview, fs_last_selected_name,
                    zip_last_selected_name, io_tx, height, pc, opens, trip >>

EnumSend(c) ==
    /\ chans[c].st = "send"
    /\ chans[c].todo # << >>
    /\ chans' = [chans EXCEPT ![c] = ThreadSend(@, RxHeld(c))]
    /\ ThreadFrame

EnumExit(c) ==
    /\ chans[c].st = "send"
    /\ chans[c].todo = << >>
    /\ chans' = [chans EXCEPT ![c] = ThreadExit(@)]
    /\ ThreadFrame

Render ==
    \/ RenderLeftFirst
    \/ RenderLeftSecond
    \/ RenderRightFirst
    \/ RenderRightSecond

Enumerate ==
    \/ \E c \in 1..Len(chans) : EnumOpen(c)
    \/ \E c \in 1..Len(chans) : EnumSend(c)
    \/ \E c \in 1..Len(chans) : EnumExit(c)

Next ==
    \/ \E i \in 0..MaxIndex : SelectIndex(i)
    \/ KeyDown
    \/ KeyUp
    \/ PageUp
    \/ PageDown
    \/ OpenSelected(MaxOpens)
    \/ SwitchPanel
    \/ \E side \in Side, i \in 0..MaxIndex, double \in BOOLEAN :
         MouseDown(side, i, double)
    \/ \E side \in Side, rows \in {WheelRows, 0, 0 - WheelRows} :
         ScrollWheel(side, rows)
    \/ Render
    \/ Enumerate

\* both panels in use, few opens
Spec == Init /\ [][Next]_vars

\* the user stays in the left panel and opens more
NextNav ==
    \/ \E i \in 0..MaxIndex : SelectIndex(i)
    \/ KeyDown
    \/ KeyUp
    \/ PageUp
    \/ PageDown
    \/ OpenSelected(MaxNavOpens)
    \/ \E rows \in {WheelRows, 0, 0 - WheelRows} : ScrollWheel("Left", rows)
    \/ Render
    \/ Enumerate

SpecNav == InitNav /\ [][NextNav]_vars

(***************************************************************************)
(* The readers and the classifier, called on their own: call holds the     *)
(* arguments and, once the function has returned, its result.              *)
(***************************************************************************)
\* directories: up to MaxDirLen children with different names, in any order
FsCallNames == {"A", "a.txt", "b.txt"}
FsCallChildren ==
    { q \in UNION { [1..n -> [name : FsCallNames, is_dir : BOOLEAN]] :
                      n \in 0..MaxDirLen } :
        \A i, j \in 1..Len(q) : q[i].name = q[j].name => i = j }
FsCalls ==
    { [op |-> "read_fs_directory", path |-> path, children |-> q, ret |-> None] :
        path \in {Root, DirD}, q \in FsCallChildren }

\* archives: up to MaxMembers members, in any order, repeated or not, read
\* at the root, in src and in src/lib
ZipCallMembers ==
    { << "src", "main.txt" >>, << "src", "lib", "util.txt" >>, << "readme.md" >>,
      << "src", "" >>, << "a.txt" >> }
ZipCalls ==
    { [op |-> "read_zip_directory", members |-> q, cwd |-> cwd, ret |-> None] :
        q \in UNION { [1..n -> ZipCallMembers] : n \in 0..MaxMembers },
        cwd \in { << >>, << "src" >>, << "src", "lib" >> } }

\* byte prefixes: n times the byte p, then m times the byte q, then a NUL
\* or not
MkBytes(n, p, m, q, nul) ==
    [i \in 1..n |-> p] \o [i \in 1..m |-> q] \o (IF nul THEN << 0 >> ELSE << >>)
TextCalls ==
    { [op |-> "is_probably_text", bytes |-> MkBytes(n, p, len - n, q, FALSE),
       ret |-> None] :
        len \in 0..MaxBytes, n \in 0..MaxBytes, p \in {9, 32, 126}, q \in {31, 127} }
    \cup { [op |-> "is_probably_text", bytes |-> MkBytes(n, 32, 0, 31, TRUE),
            ret |-> None] : n \in 0..(MaxBytes - 1) }

\* viewports: heights in pixels from -MaxHeight to MaxHeight, with a
\* selection and a top of the window to adjust
RowsCalls ==
    { [op |-> "compute_window_rows", height |-> h, selected_index |-> sel,
       top_index |-> top, ret |-> None, kept |-> None] :
        h \in (0 - MaxHeight)..MaxHeight, sel \in 0..MaxIndex, top \in 0..MaxIndex }

\* byte sequences to dump: up to MaxDumpLen bytes that start at one value
\* and go up in steps, around 255 back to 0
DumpBytes(len, start, step) == [i \in 1..len |-> (start + step * (i - 1)) % 256]
DumpCalls ==
    { [op |-> "hexdump", bytes |-> DumpBytes(len, start, step), ret |-> None] :
        len \in 0..MaxDumpLen, start \in {0, 9, 30, 120, 250}, step \in {0, 1, 3} }

CallInputs == FsCalls \cup ZipCalls \cup TextCalls \cup RowsCalls \cup DumpCalls

InitCalls == Started(Root) /\ trip = TripOff /\ call \in CallInputs

CallFrame ==
    UNCHANGED << panel, active_panel, preview, fs_last_selected_name,
                 zip_last_selected_name, chans, io_tx, height, pc, opens, trip >>

CallReadFs ==
    /\ call.op = "read_fs_directory"
    /\ call.ret = None
    /\ call' = [call EXCEPT !.ret = Some(read_fs_directory(call.path, call.children))]
    /\ CallFrame

CallReadZip ==
    /\ call.op = "read_zip_directory"
    /\ call.ret = None
    /\ call' = [call EXCEPT !.ret =
                   Some(read_zip_directory_of(call.members, ZipA, call.cwd))]
    /\ CallFrame

CallIsText ==
    /\ call.op = "is_probably_text"
    /\ call.ret = None
    /\ call' = [call EXCEPT !.ret = Some(is_probably_text(call.bytes))]
    /\ CallFrame

\* compute_window_rows and the window adjustment made with its result
CallRows ==
    /\ call.op = "compute_window_rows"
    /\ call.ret = None
    /\ call' = [call EXCEPT
                  !.ret = Some(compute_window_rows(call.height)),
                  !.kept = Some(KeepVisible([selected_index |-> call.selected_index,
                                             top_index |-> call.top_index],
                                            compute_window_rows(call.height)))]
    /\ CallFrame

CallHexdump ==
    /\ call.op = "hexdump"
    /\ call.ret = None
    /\ call' = [call EXCEPT !.ret = Some(hexdump(call.bytes))]
    /\ CallFrame

NextCalls ==
    \/ CallReadFs
    \/ CallReadZip
    \/ CallIsText
    \/ CallRows
    \/ CallHexdump

SpecCalls == InitCalls /\ [][NextCalls]_vars

\* the "f5" key, while fewer than MaxCopies tasks were handed to send
EnqueueCopy ==
    /\ Len(io_tx.hist) + io_tx.lost < MaxCopies
    /\ Cmd(enqueue_copy_selected(State))

IoFrame ==
    UNCHANGED << call, panel, active_panel, preview, fs_last_selected_name,
                 zip_last_selected_name, chans, height, pc, opens, trip >>

IoRecv ==
    /\ io_tx.alive
    /\ io_tx.running = None
    /\ io_tx.queue # << >>
    /\ io_tx' = IoWorkerRecv(io_tx)
    /\ IoFrame

IoCopy ==
    /\ io_tx.running # None
    /\ \E r \in copy_recursively(io_tx.running[1].src, io_tx.running[1].dst_dir) :
         io_tx' = IoWorkerDone(io_tx, r)
    /\ IoFrame

IoWorker == IoRecv \/ IoCopy

\* the user moves the cursor down, changes panel, opens and copies, while
\* the enumerating threads wait to be scheduled: the panels show first pages
NextCopy ==
    \/ KeyDown
    \/ SwitchPanel
    \/ OpenSelected(MaxCopyOpens)
    \/ EnqueueCopy
    \/ IoWorker
    \/ Render

SpecCopy == Init /\ [][NextCopy]_vars

\* the worker is a thread of its own: it runs whenever it has something to do
SpecCopyFair == SpecCopy /\ WF_vars(IoWorker)

\* the user stays in the left panel, moves the cursor and opens
NextCrafted ==
    \/ \E i \in 0..MaxIndex : SelectIndex(i)
    \/ KeyDown
    \/ KeyUp
    \/ OpenSelected(MaxCraftedOpens)
    \/ Render
    \/ Enumerate

SpecCrafted == InitCrafted /\ [][NextCrafted]_vars

\* the user only opens the row under the cursor and scrolls
NextLeave ==
    \/ OpenSelected(MaxLeaveOpens)
    \/ \E rows \in {WheelRows, 0, 0 - WheelRows} : ScrollWheel("Left", rows)
    \/ Render
    \/ Enumerate

SpecLeave == InitLeave /\ [][NextLeave]_vars

\* Spec with the preview keys (F3, Escape)
NextPreview == Next \/ TogglePreview \/ Escape
SpecPreview == InitPreview /\ [][NextPreview]_vars

(***************************************************************************)
(* Vocabulary of the properties.                                           *)
(***************************************************************************)
\* the channel of the last navigation started for panel side
NavOf(side) ==
    CHOOSE c \in 1..Len(chans) :
        /\ chans[c].target = side
        /\ \A d \in 1..Len(chans) : chans[d].target = side => d <= c

\* the rows a navigation shows before anything arrives
InitialOf(p) ==
    IF p.mode.kind = "Fs" THEN FsInitial(p.current_path)
    ELSE ZipParentEntry(p.mode.archive_path, p.mode.cwd)

\* streaming of the last navigation of panel side is over: its thread has
\* returned and the panel has let go of the queue
Complete(side) ==
    /\ panel[side].entries_rx = None
    /\ chans[NavOf(side)].st = "done"

\* the selection of p is inside the window of a viewport of height h
InWindow(p, h) ==
    /\ p.top_index <= p.selected_index
    /\ p.selected_index <= p.top_index + compute_window_rows(h) - 1

\* steps: the two updates of the pump of panel side, a whole pump ends with
\* its second update
FirstUpdate(side) ==
    IF side = "Left" THEN pc = "idle" /\ pc' = "Left2"
    ELSE pc = "Right1" /\ pc' = "Right2"
SecondUpdate(side) ==
    IF side = "Left" THEN pc = "Left2" /\ pc' = "Right1"
    ELSE pc = "Right2" /\ pc' = "idle"

\* steps: a selection command that lands on a row of panel side, a manual
\* scroll of its list
SelectStep(side) ==
    \/ /\ side = active_panel
       /\ \/ \E i \in 0..MaxIndex : InRange(i) /\ SelectIndex(i)
          \/ KeyDown
          \/ KeyUp
          \/ PageUp
          \/ PageDown
    \/ \E i \in 0..MaxIndex :
         i < Len(panel[side].entries) /\ MouseDown(side, i, FALSE)
ScrollStep(side) == \E rows \in {WheelRows, 0, 0 - WheelRows} : ScrollWheel(side, rows)

(***************************************************************************)
(* Properties.                                                             *)
(***************************************************************************)
\* C1 as stated: after a selectIndex, a pump or a manual scroll on a panel
\* with entries, topIndex <= selectedIndex <= topIndex + visibleRows - 1.
C1_AfterSelectPumpScroll ==
    [][\A side \in Side :
          (\/ SelectStep(side)
           \/ SecondUpdate(side)
           \/ ScrollStep(side))
          => (panel'[side].entries # << >> => InWindow(panel'[side], height))]_vars

\* C1 amended: after a selectIndex that lands on a row and after a whole
\* pump, on a panel with entries, topIndex <= selectedIndex <= topIndex +
\* visibleRows - 1; a manual scroll may leave the selection outside the
\* window until the next pump.
C1_AfterSelectPump ==
    [][\A side \in Side :
          (SelectStep(side) \/ SecondUpdate(side))
          => (panel'[side].entries # << >> => InWindow(panel'[side], height))]_vars

\* a selection has scrolled the list down to keep the cursor on its last
\* visible row
C1_Witness ==
    /\ pc = "idle"
    /\ panel["Left"].top_index > 0
    /\ panel["Left"].selected_index
         = panel["Left"].top_index + compute_window_rows(height) - 1
    /\ panel["Left"].selected_index + 1 = Len(panel["Left"].entries)

\* C2: in every reachable state, a panel with entries has
\* selectedIndex < entries.length.
C2_SelectionInBounds ==
    \A side \in Side :
        panel[side].entries # << >>
        => panel[side].selected_index < Len(panel[side].entries)

\* after a navigation the cursor is on the last row of a list of several
C2_Witness ==
    \E side \in Side :
        /\ opens > 0
        /\ NavOf(side) > 2
        /\ Len(panel[side].entries) > 2
        /\ panel[side].selected_index = Len(panel[side].entries) - 1

\* C3: the first page of a navigation is the first batch it produces, and
\* what a panel shows is its initial rows followed by the first k batches
\* of its navigation in the order they were produced, each once.
C3_BatchesInOrder ==
    \A side \in Side :
        LET p == panel[side]
            ch == chans[NavOf(side)]
        IN /\ ch.page # << >> => ch.sent # << >> /\ ch.sent[1] = ch.page
           /\ \E k \in 0..Len(ch.sent) :
                p.entries = InitialOf(p) \o Flatten(SubSeq(ch.sent, 1, k))

\* a panel shows two batches of one navigation, one after the other
C3_Witness ==
    \E side \in Side :
        LET p == panel[side]
            ch == chans[NavOf(side)]
        IN /\ Len(ch.sent) >= 2
           /\ ch.sent[1] # ch.sent[2]
           /\ p.entries = InitialOf(p) \o ch.sent[1] \o ch.sent[2]

\* C4 as stated: once streaming of a filesystem navigation whose reads
\* succeeded is complete, every item of the directory is in the panel's
\* entries exactly once.
C4_EveryItemOnce ==
    \A side \in Side :
        LET p == panel[side]
            ch == chans[NavOf(side)]
            items == ReadDirEntries(p.current_path)
        IN (p.mode.kind = "Fs" /\ Complete(side) /\ ~ch.failed)
           => \A i \in 1..Len(items) :
                Cardinality({j \in 1..Len(p.entries) : p.entries[j] = items[i]}) = 1

\* C5 as stated: once streaming of an archive navigation that could read
\* the archive is complete, the panel's entries are the result of
\* read_zip_directory(archive_path, cwd), in its order.
C5_EqualsListing ==
    \A side \in Side :
        LET p == panel[side]
            ch == chans[NavOf(side)]
        IN (p.mode.kind = "Zip" /\ Complete(side) /\ ~ch.failed)
           => p.entries = read_zip_directory(p.mode.archive_path, p.mode.cwd)

\* C6 as stated: the user selected X in a directory, left it for its
\* parent and opened it again from there; once streaming is complete and
\* the list shows X, selectedIndex is on X.
C6_RoundTrip ==
    LET p == panel[active_panel]
    IN (/\ trip.phase = "back"
        /\ Complete(active_panel)
        /\ Position(p.entries, trip.x[1]) # None)
       => Some(p.selected_index) = Position(p.entries, trip.x[1])

\* C7 as stated: an update of the pump whose receive returns a batch or
\* reports the queue empty leaves the queue with the panel.
C7_QueueKept ==
    [][\A side \in Side :
          (/\ FirstUpdate(side) \/ SecondUpdate(side)
           /\ panel[side].entries_rx # None
           /\ TryRecv(chans[panel[side].entries_rx[1]]) \in {"Ok", "Empty"})
          => panel'[side].entries_rx = panel[side].entries_rx]_vars

\* C8 as stated: an update of the pump that appends a batch while a
\* preferSelectName request is pending searches the whole list; without a
\* match the request stays pending, with one selectedIndex is the match,
\* the request is cleared and the selection is in the window.
C8_PreferRetried ==
    [][\A side \in Side :
          (/\ FirstUpdate(side) \/ SecondUpdate(side)
           /\ panel'[side].entries # panel[side].entries
           /\ panel[side].prefer_select_name # None)
          => LET idx == Position(panel'[side].entries,
                                 panel[side].prefer_select_name[1])
             IN IF idx = None
                THEN panel'[side].prefer_select_name = panel[side].prefer_select_name
                ELSE /\ panel'[side].selected_index = idx[1]
                     /\ panel'[side].prefer_select_name = None
                     /\ InWindow(panel'[side], height)]_vars

\* C9: an update of the pump on a panel that holds no queue, or whose
\* queue is empty or closed, leaves entries and selectedIndex as they are.
C9_IdlePumpKeeps ==
    [][\A side \in Side :
          (/\ FirstUpdate(side) \/ SecondUpdate(side)
           /\ \/ panel[side].entries_rx = None
              \/ TryRecv(chans[panel[side].entries_rx[1]]) # "Ok")
          => /\ panel'[side].entries = panel[side].entries
             /\ panel'[side].selected_index = panel[side].selected_index]_vars

\* the second update is about to find the queue closed, on a list whose
\* cursor the user has moved
C9_Witness ==
    /\ pc = "Left2"
    /\ panel["Left"].entries_rx # None
    /\ TryRecv(chans[panel["Left"].entries_rx[1]]) = "Disconnected"
    /\ panel["Left"].selected_index > 0

\* C10 as stated: an update of the pump on a panel without a queue leaves
\* every field of the panel as it is.
C10_NoOp ==
    [][\A side \in Side :
          (/\ FirstUpdate(side) \/ SecondUpdate(side)
           /\ panel[side].entries_rx = None)
          => panel'[side] = panel[side]]_vars

\* C10 amended: an update of the pump on a panel without a queue leaves
\* entries, selectedIndex, preferSelectName, path and mode as they are; it
\* leaves topIndex as it is when the selection is in the window and
\* topIndex is at most max(0, entries.length - visibleRows), and moves it
\* back there otherwise.
C10_NoOpButTop ==
    [][\A side \in Side :
          (/\ FirstUpdate(side) \/ SecondUpdate(side)
           /\ panel[side].entries_rx = None)
          => /\ panel'[side] = [panel[side] EXCEPT !.top_index = panel'[side].top_index]
             /\ (/\ InWindow(panel[side], height)
                 /\ panel[side].top_index
                      <= SatSub(Len(panel[side].entries),
                                Max(compute_window_rows(height), 1)))
                => panel'[side].top_index = panel[side].top_index]_vars

\* the pump has run on a panel without a queue whose list is scrolled down
C10_Witness ==
    /\ pc = "Right1"
    /\ panel["Left"].entries_rx = None
    /\ panel["Left"].top_index > 0
    /\ panel["Left"].selected_index > panel["Left"].top_index

\* C11: a navigation started on a panel replaces the panel's queue by the
\* new one, and every batch the pump appends afterwards is the head of the
\* queue of the panel's last navigation, never a batch of an earlier one.
C11_OnlyLastNavigation ==
    [][\A side \in Side :
          /\ NavOf(side)' # NavOf(side)
             => /\ panel'[side].entries_rx = Some(NavOf(side)')
                /\ panel[side].entries_rx # None
                   => chans'[panel[side].entries_rx[1]].queue = << >>
          /\ panel[side].entries_rx # None => panel[side].entries_rx = Some(NavOf(side))
          /\ (/\ FirstUpdate(side) \/ SecondUpdate(side)
              /\ panel'[side].entries # panel[side].entries)
             => /\ panel[side].entries_rx = Some(NavOf(side))
                /\ panel'[side].entries
                     = panel[side].entries \o Head(chans[NavOf(side)].queue)]_vars

\* the enumerator of an earlier navigation of the panel is still streaming
\* while the panel shows a batch of its last navigation
C11_Witness ==
    \E c \in 1..Len(chans) :
        /\ chans[c].target = "Left"
        /\ c < NavOf("Left")
        /\ chans[c].st = "send"
        /\ chans[c].todo # << >>
        /\ chans[c].sent # << >>
        /\ panel["Left"].entries # InitialOf(panel["Left"])

\* C12: a step of a background enumerator (one that moves its thread on)
\* changes that thread's channel and nothing else: both panels, the
\* active side, the preview, the memory maps and every other channel stay
\* as they are, so panel state changes only in a command or in the pump.
C12_EnumeratorOwnQueueOnly ==
    [][\A c \in 1..Len(chans) :
          (\/ chans'[c].st # chans[c].st
           \/ chans'[c].todo # chans[c].todo
           \/ chans'[c].sent # chans[c].sent)
          => /\ panel' = panel
             /\ active_panel' = active_panel
             /\ preview' = preview
             /\ fs_last_selected_name' = fs_last_selected_name
             /\ zip_last_selected_name' = zip_last_selected_name
             /\ pc' = pc
             /\ Len(chans') = Len(chans)
             /\ \A d \in 1..Len(chans) : d # c => chans'[d] = chans[d]]_vars

\* an enumerator has put a streamed chunk into the queue of a panel that
\* does not show it yet
C12_Witness ==
    \E c \in 1..Len(chans) :
        /\ panel[chans[c].target].entries_rx = Some(c)
        /\ Len(chans[c].sent) >= 2
        /\ chans[c].queue = << chans[c].sent[2] >>
        /\ panel[chans[c].target].entries
             = InitialOf(panel[chans[c].target]) \o chans[c].sent[1]

\* what a panel shows of a navigation whose first read was refused: for an
\* archive nothing is ever produced; for a directory nothing before the
\* one read_dir the thread makes itself, and afterwards what that read
\* gave, which is nothing if it failed too
RefusedShown(side) ==
    LET p == panel[side]
        ch == chans[NavOf(side)]
    IN ch.refused
       => IF p.mode.kind = "Zip"
          THEN ch.sent = << >> /\ ch.st = "done" /\ p.entries = InitialOf(p)
          ELSE /\ ch.st = "open" => ch.sent = << >>
               /\ ch.st # "open"
                  => Flatten(ch.sent) \o ch.todo
                       \in {<< >>, ReadDirEntries(p.current_path)}
               /\ ch.sent = << >> => p.entries = InitialOf(p)

TopInRange(p, h) ==
    p.top_index <= SatSub(Len(p.entries), Max(compute_window_rows(h), 1))

\* C14 as stated: after a change of entries, a selection change or a
\* manual scroll on a panel, 0 <= topIndex <= max(0, entries.length -
\* visibleRows).
C14_TopAlwaysInRange ==
    [][\A side \in Side :
          (\/ panel'[side].entries # panel[side].entries
           \/ SelectStep(side)
           \/ ScrollStep(side))
          => TopInRange(panel'[side], height)]_vars

\* C14 amended: topIndex is within [0, max(0, entries.length -
\* visibleRows)] after a navigation, a whole pump and a manual scroll; a
\* selection change and the first update of the pump keep it within the
\* range if it was, and do not bring it back if the viewport has grown
\* since the last pump.
C14_TopInRangeAfterPump ==
    [][\A side \in Side :
          /\ (\/ NavOf(side)' # NavOf(side)
              \/ SecondUpdate(side)
              \/ ScrollStep(side))
             => TopInRange(panel'[side], height)
          /\ (/\ SelectStep(side) \/ FirstUpdate(side)
              /\ TopInRange(panel[side], height))
             => TopInRange(panel'[side], height)]_vars

\* the list is scrolled to its last page with the cursor on the top row
C14_Witness ==
    /\ pc = "idle"
    /\ panel["Left"].top_index > 0
    /\ panel["Left"].top_index
         = SatSub(Len(panel["Left"].entries), Max(compute_window_rows(height), 1))
    /\ panel["Left"].selected_index = panel["Left"].top_index

\* C15: select_entry(i) with i >= entries.length of the active panel, any
\* i on an empty panel included, returns the model it was given:
\* selectedIndex, topIndex, entries, the preview payload and every other
\* field are unchanged.
C15_OutOfRangeIgnored ==
    \A i \in 0..MaxIndex :
        ~InRange(i) => select_entry(State, i, height) = State

\* a preview is shown of a list that is scrolled down and that is shorter
\* than the indexes the user may ask for
C15_Witness ==
    /\ pc = "idle"
    /\ preview # None
    /\ panel[active_panel].top_index > 0
    /\ panel[active_panel].selected_index > 0
    /\ Len(panel[active_panel].entries) <= MaxIndex

\* the scenario of the page keys: the left panel lists ScenarioLen files of
\* the root, the cursor is on row 5 and the list is not scrolled
ScenarioLen == 1000
ScenarioModel ==
    [NewModel(Root) EXCEPT
       !.panel["Left"].entries =
           [i \in 1..ScenarioLen |-> DirEntry("f", FALSE, FsLoc(<< "f" >>))],
       !.panel["Left"].selected_index = 5]

\* what the page keys make of model s in a viewport of height h: the
\* cursor on row target, the window moved to keep it visible, all else as
\* it was; s itself on an empty panel
Paged(s, target, h) ==
    LET p == s.panel[s.active_panel]
    IN IF p.entries = << >> THEN s
       ELSE [s EXCEPT !.panel[s.active_panel] =
                KeepVisible([p EXCEPT !.selected_index = target],
                            compute_window_rows(h))]

\* C16: pageDown puts the cursor of the active panel on
\* min(selectedIndex + visibleRows, entries.length - 1) and pageUp on
\* max(selectedIndex - visibleRows, 0), the window is recomputed and
\* nothing else changes; an empty panel is left as it is; with 1000
\* entries, 10 visible rows, topIndex 0 and selectedIndex 5, pageDown gives
\* selectedIndex 15 and topIndex 6.
C16_PageKeys ==
    LET p == panel[active_panel]
        rows == compute_window_rows(height)
        down == page_down(State, height)
        up == page_up(State, height)
        scenario == page_down(ScenarioModel, 0).panel["Left"]
    IN /\ down = Paged(State, Min(p.selected_index + rows, Len(p.entries) - 1), height)
       /\ up = Paged(State, Max(p.selected_index - rows, 0), height)
       /\ p.entries # << >>
          => /\ InWindow(down.panel[active_panel], height)
             /\ InWindow(up.panel[active_panel], height)
       /\ compute_window_rows(0) = 10
       /\ scenario.selected_index = 15
       /\ scenario.top_index = 6

\* the cursor is on the first of at least three rows of a list that shows
\* two rows at a time
C16_Witness ==
    /\ pc = "idle"
    /\ compute_window_rows(height) = 2
    /\ Len(panel[active_panel].entries) >= 3
    /\ panel[active_panel].selected_index = 0
    /\ panel[active_panel].top_index = 0

\* C17 as stated: the switch of panels bound to the tab key toggles the
\* active side and changes nothing else, the preview payload included,
\* and doing it twice restores the active side.
C17_TabTogglesOnly ==
    /\ tab_key(State) = [State EXCEPT !.active_panel = Other(active_panel)]
    /\ tab_key(tab_key(State)).active_panel = active_panel

\* C17 amended: switch_panel toggles the active side and changes nothing
\* else, and twice it restores the model; the tab key calls it and, while
\* a preview is shown, also replaces the preview payload by the preview
\* of the entry selected in the newly active panel (none for a directory
\* or an empty panel); both panels and both memory maps are unchanged and
\* two tab keys restore the active side.
C17_TabTogglesAndPreviews ==
    LET toggled == [State EXCEPT !.active_panel = Other(active_panel)]
        tab == tab_key(State)
        q == panel[Other(active_panel)]
    IN /\ switch_panel(State) = toggled
       /\ switch_panel(switch_panel(State)) = State
       /\ tab = [toggled EXCEPT !.preview = tab.preview]
       /\ preview = None => tab = toggled
       /\ preview # None
          => tab.preview = IF q.entries = << >> THEN None
                           ELSE IF At(q.entries, q.selected_index).is_dir THEN None
                           ELSE Some(PreviewOf(At(q.entries, q.selected_index)))
       /\ tab_key(tab).active_panel = active_panel

\* a preview is shown and the tab key would replace it
C17_Witness ==
    /\ pc = "idle"
    /\ preview # None
    /\ tab_key(State).preview # None
    /\ tab_key(State).preview # preview

\* C18: a manual scroll of the list of a panel by rows (3, 0 or -3) sets
\* that panel's topIndex to topIndex + rows clamped into
\* [0, max(0, entries.length - visibleRows)] and changes nothing else:
\* not selectedIndex, not entries, not the active panel, not the other
\* panel.
C18_ScrollMovesTopOnly ==
    \A side \in Side, rows \in {WheelRows, 0, 0 - WheelRows} :
        LET p == panel[side]
            max_top == Max(0, Len(p.entries) - compute_window_rows(height))
            clamped == Max(0, Min(p.top_index + rows, max_top))
        IN on_scroll_wheel(State, side, rows, height)
             = [State EXCEPT !.panel[side].top_index = clamped]

\* the list of the inactive panel is scrolled past its cursor
C18_Witness ==
    /\ pc = "idle"
    /\ active_panel = "Left"
    /\ panel["Right"].top_index > panel["Right"].selected_index
    /\ panel["Right"].entries_rx = None

\* C19: open_selected on an active panel with entries leaves the memory
\* maps as they were but for one pair, the location the panel showed ->
\* the name of the entry that was selected, in the map of the panel's mode
\* (current_path in Fs mode, (archive_path, cwd) in Zip mode), whatever
\* the entry is and whatever the navigation's read returns; on an empty
\* panel it returns the model unchanged.
C19_OpenRecordsSelection ==
    \A ok \in BOOLEAN :
        LET p == panel[active_panel]
            opened == open_selected(State, ok)
        IN IF p.entries = << >> THEN opened = State
           ELSE LET name == At(p.entries, p.selected_index).name
                IN IF p.mode.kind = "Fs"
                   THEN /\ opened.fs_last_selected_name
                            = MapInsert(fs_last_selected_name, p.current_path, name)
                        /\ opened.zip_last_selected_name = zip_last_selected_name
                   ELSE /\ opened.zip_last_selected_name
                            = MapInsert(zip_last_selected_name,
                                        << p.mode.archive_path, p.mode.cwd >>, name)
                        /\ opened.fs_last_selected_name = fs_last_selected_name

\* the panel shows an archive, entered by an open that was recorded, and
\* the cursor is on a file of it
C19_Witness ==
    /\ pc = "idle"
    /\ panel[active_panel].mode.kind = "Zip"
    /\ Len(panel[active_panel].entries) > 2
    /\ ~At(panel[active_panel].entries, panel[active_panel].selected_index).is_dir
    /\ fs_last_selected_name # EmptyMap

\* the names of this environment whose extension is that of an archive
ArchiveNames == {"a.zip", "b.zip"}

\* C20: open_selected on a file inside an archive, or on a filesystem file
\* that is no archive, starts no navigation: both panels (current_path,
\* mode, entries, selected_index, top_index, entries_rx), the channels,
\* the active side and the preview are unchanged.
C20_FilesOpenNothing ==
    LET p == panel[active_panel]
    IN (/\ p.entries # << >>
        /\ ~At(p.entries, p.selected_index).is_dir
        /\ \/ At(p.entries, p.selected_index).location.kind = "Zip"
           \/ At(p.entries, p.selected_index).name \notin ArchiveNames)
       => \A ok \in BOOLEAN :
             LET opened == open_selected(State, ok)
             IN /\ opened.panel = panel
                /\ opened.chans = chans
                /\ opened.active_panel = active_panel
                /\ opened.preview = preview

\* the cursor is on a filesystem file that is no archive
C20_Witness ==
    /\ pc = "idle"
    /\ panel[active_panel].mode.kind = "Fs"
    /\ panel[active_panel].entries # << >>
    /\ ~At(panel[active_panel].entries, panel[active_panel].selected_index).is_dir
    /\ At(panel[active_panel].entries,
          panel[active_panel].selected_index).name \notin ArchiveNames

\* the listing of the place panel p is in, as a complete read returns it
ListingOf(p) ==
    IF p.mode.kind = "Fs" THEN FsInitial(p.current_path) \o ReadDirEntries(p.current_path)
    ELSE read_zip_directory(p.mode.archive_path, p.mode.cwd)

\* the name of the place panel p is in: the last segment of its path inside
\* the archive, else the last component of its directory or archive file
LeftName(p) ==
    IF p.mode.kind = "Zip" /\ p.mode.cwd # << >> THEN LastSegment(p.mode.cwd)
    ELSE FileName(p.current_path)

\* C21 as stated: opening ".." gives the navigation the name of the place
\* left as its hint, before the remembered name of the destination; opening
\* any other directory row gives it the remembered name only; and once the
\* streaming of a navigation that had a hint is complete, the cursor is on
\* the row of that name if the listing of the destination contains it.
C21_HintRestored ==
    /\ \A ok \in OpenOutcomes(State) :
         LET p == panel[active_panel]
             e == At(p.entries, p.selected_index)
             q == open_selected(State, ok).panel[active_panel]
             mem == store_current_selection_memory(State)
         IN (p.entries # << >> /\ e.is_dir)
            => q.prefer_select_name =
                 IF e.name = ".." THEN LeftName(p)
                 ELSE IF e.location.kind = "Fs"
                      THEN MapGet(mem.fs_last_selected_name, e.location.path)
                      ELSE MapGet(mem.zip_last_selected_name,
                                  << e.location.path, e.location.inner_path >>)
    /\ \A side \in Side :
         LET ch == chans[NavOf(side)]
             p == panel[side]
         IN (/\ ch.hint # None
             /\ Complete(side)
             /\ ~ch.failed
             /\ Position(ListingOf(p), ch.hint[1]) # None)
            => /\ p.entries # << >>
               /\ At(p.entries, p.selected_index).name = ch.hint[1]

\* C22: open_selected on a file of the filesystem whose name has the
\* archive extension puts the panel in Zip mode with that file as
\* archive_path and cwd "", whether the archive can be read or not.
C22_ArchiveFileEntersZip ==
    \A ok \in OpenOutcomes(State) :
        LET p == panel[active_panel]
            e == At(p.entries, p.selected_index)
            q == open_selected(State, ok).panel[active_panel]
        IN (/\ p.entries # << >>
            /\ e.location.kind = "Fs"
            /\ ~e.is_dir
            /\ e.name \in ArchiveNames)
           => /\ q.mode = ZipMode(e.location.path, << >>)
              /\ q.current_path = e.location.path

\* the archive was opened from the filesystem and could not be read
C22_Witness ==
    /\ opens > 0
    /\ panel[active_panel].mode = ZipMode(ZipA, << >>)
    /\ chans[NavOf(active_panel)].refused
    /\ chans[NavOf(active_panel)].path = ZipA

\* C23: the ".." row of a panel inside an archive targets the same archive
\* with the last segment of cwd removed (the root when cwd has one segment),
\* and at the root of the archive the filesystem directory that holds the
\* archive; opening it at the root puts the panel back in Fs mode there.
C23_ArchiveParentRow ==
    /\ \A side \in Side :
         LET p == panel[side]
         IN (p.mode.kind = "Zip" /\ p.entries # << >>)
            => /\ p.entries[1].name = ".."
               /\ p.entries[1].is_dir
               /\ p.entries[1].location =
                    IF p.mode.cwd # << >>
                    THEN ZipLoc(p.mode.archive_path,
                                SubSeq(p.mode.cwd, 1, Len(p.mode.cwd) - 1))
                    ELSE FsLoc(SubSeq(p.mode.archive_path, 1,
                                      Len(p.mode.archive_path) - 1))
    /\ \A ok \in OpenOutcomes(State) :
         LET p == panel[active_panel]
             q == open_selected(State, ok).panel[active_panel]
         IN (/\ p.mode.kind = "Zip"
             /\ p.entries # << >>
             /\ At(p.entries, p.selected_index).name = "..")
            => IF p.mode.cwd = << >>
               THEN /\ q.mode = FsMode
                    /\ q.current_path = SubSeq(p.mode.archive_path, 1,
                                               Len(p.mode.archive_path) - 1)
               ELSE q.mode = ZipMode(p.mode.archive_path,
                                     SubSeq(p.mode.cwd, 1, Len(p.mode.cwd) - 1))
    /\ ZipParentEntry(ZipA, << "s", "t" >>)
         = << DirEntry("..", TRUE, ZipLoc(ZipA, << "s" >>)) >>

\* the panel has left the archive through the ".." row of its root
C23_Witness ==
    /\ panel["Left"].mode = FsMode
    /\ panel["Left"].current_path = Root
    /\ chans[NavOf("Left")].hint = Some("a.zip")

\* C24: enqueue_copy_selected sends exactly one task, with the filesystem
\* path of the selected entry as source and the directory of the other panel
\* as destination, when the selected entry is located in the filesystem and
\* the other panel is in Fs mode; it sends nothing when the entry is inside
\* an archive, the other panel is in Zip mode or the active panel is empty;
\* it leaves the panels, the focus, the preview and the memory maps as they
\* are, and a send that fails is only counted.
C24_EnqueueCopy ==
    LET s2 == enqueue_copy_selected(State)
        p == panel[active_panel]
        other_panel == panel[Other(active_panel)]
    IN /\ s2.panel = panel
       /\ s2.active_panel = active_panel
       /\ s2.preview = preview
       /\ s2.fs_last_selected_name = fs_last_selected_name
       /\ s2.zip_last_selected_name = zip_last_selected_name
       /\ s2.chans = chans
       /\ IF /\ p.entries # << >>
             /\ At(p.entries, p.selected_index).location.kind = "Fs"
             /\ other_panel.mode.kind = "Fs"
          THEN IF io_tx.alive
               THEN /\ s2.io_tx.queue =
                         Append(io_tx.queue,
                                Copy(At(p.entries, p.selected_index).location.path,
                                     other_panel.current_path))
                    /\ s2.io_tx.lost = io_tx.lost
               ELSE /\ s2.io_tx.queue = io_tx.queue
                    /\ s2.io_tx.lost = io_tx.lost + 1
          ELSE s2.io_tx = io_tx

\* a task was sent, and now the cursor is on a row of the filesystem while
\* the other panel is inside the archive
C24_Witness ==
    /\ pc = "idle"
    /\ io_tx.hist # << >>
    /\ panel[active_panel].entries # << >>
    /\ At(panel[active_panel].entries,
          panel[active_panel].selected_index).location.kind = "Fs"
    /\ panel[Other(active_panel)].mode.kind = "Zip"

\* the tasks the worker has attempted, in the order it attempted them
Attempted == [i \in 1..Len(io_tx.done) |-> io_tx.done[i].task]

\* C25 as stated: the one worker attempts the tasks in the order they were
\* sent, one at a time; a task that fails does not stop it; every task sent
\* while it is alive is eventually attempted.
C25_EveryJobAttempted ==
    /\ [](Attempted = SubSeq(io_tx.hist, 1, Len(io_tx.done)))
    /\ [](io_tx.running # None
            => io_tx.running = Some(io_tx.hist[Len(io_tx.done) + 1]))
    /\ \A n \in 1..MaxCopies :
         (Len(io_tx.hist) >= n) ~> (Len(io_tx.done) >= n)

\* the names of a listing
NamesOf(entries) == [i \in 1..Len(entries) |-> entries[i].name]

\* C26: read_fs_directory lists the directories before the files, each
\* group in the byte order of the names; ".." is listed exactly when the
\* directory has a parent, and then first; every child is listed once.  A
\* directory with a parent and the files b.txt, A, a.txt gives
\* "..", A, a.txt, b.txt.
C26_FsListingOrder ==
    /\ (call.op = "read_fs_directory" /\ call.ret # None)
       => LET r == call.ret[1]
              up == IF Len(call.path) > 0 THEN 1 ELSE 0
          IN /\ Len(r) = Len(call.children) + up
             /\ up = 1 => r[1] = DirEntry("..", TRUE,
                                          FsLoc(SubSeq(call.path, 1,
                                                       Len(call.path) - 1)))
             /\ \A i \in (up + 1)..Len(r) :
                  /\ r[i].name # ".."
                  /\ \E k \in 1..Len(call.children) :
                       /\ call.children[k].name = r[i].name
                       /\ call.children[k].is_dir = r[i].is_dir
                  /\ r[i].location = FsLoc(Append(call.path, r[i].name))
             /\ \A i, j \in (up + 1)..Len(r) :
                  i < j => /\ r[i].is_dir \/ ~r[j].is_dir
                           /\ r[i].is_dir = r[j].is_dir
                              => BytesLess(Bytes(r[i].name), Bytes(r[j].name))
    /\ NamesOf(read_fs_directory(DirD, << [name |-> "b.txt", is_dir |-> FALSE],
                                          [name |-> "A", is_dir |-> FALSE],
                                          [name |-> "a.txt", is_dir |-> FALSE] >>))
         = << "..", "A", "a.txt", "b.txt" >>

\* a directory with a parent was read whose first child is a file and whose
\* last child is a directory
C26_Witness ==
    /\ call.op = "read_fs_directory"
    /\ call.ret # None
    /\ Len(call.path) > 0
    /\ Len(call.children) = 3
    /\ ~call.children[1].is_dir
    /\ call.children[3].is_dir

\* the rows of an archive listing after its ".." row
Body(r) == IF r # << >> /\ r[1].name = ".." THEN Tail(r) ELSE r

\* the member of the archive of the call that lies below cwd with a
\* remainder that is not empty, and that remainder
Below(m, cwd) ==
    /\ Len(m) > Len(cwd)
    /\ SubSeq(m, 1, Len(cwd)) = cwd
    /\ SubSeq(m, Len(cwd) + 1, Len(m)) # << "" >>

\* C27: read_zip_directory lists only members whose name starts with the
\* prefix of cwd and goes on after it; a remainder without separator is a
\* file row of that name, a remainder with a separator a directory row named
\* by its first part, and every directory is listed once.
C27_ArchiveRows ==
    (call.op = "read_zip_directory" /\ call.ret # None)
    => LET b == Body(call.ret[1])
           ms == call.members
           n == Len(call.cwd)
       IN /\ \A i \in 1..Len(b) :
               \E k \in 1..Len(ms) :
                   /\ Below(ms[k], call.cwd)
                   /\ ms[k][n + 1] = b[i].name
                   /\ b[i].is_dir = (Len(ms[k]) > n + 1)
          /\ \A k \in 1..Len(ms) :
               Below(ms[k], call.cwd)
               => \E i \in 1..Len(b) :
                      /\ b[i].name = ms[k][n + 1]
                      /\ b[i].is_dir = (Len(ms[k]) > n + 1)
          /\ \A i, j \in 1..Len(b) :
               (b[i].is_dir /\ b[j].is_dir /\ b[i].name = b[j].name) => i = j
          /\ Cardinality({ i \in 1..Len(b) : ~b[i].is_dir })
               = Cardinality({ k \in 1..Len(ms) :
                                 Below(ms[k], call.cwd) /\ Len(ms[k]) = n + 1 })

\* src was read in an archive that names it three times: as a directory
\* member and as the prefix of two others
C27_Witness ==
    /\ call.op = "read_zip_directory"
    /\ call.ret # None
    /\ call.cwd = << >>
    /\ call.members = << << "src", "main.txt" >>, << "src", "" >>,
                         << "src", "lib", "util.txt" >> >>
    /\ Len(call.ret[1]) = 2

\* the archive of the scenario
ScenarioMembers ==
    << << "src", "main.txt" >>, << "src", "lib", "util.txt" >>, << "readme.md" >> >>

\* C28: read_zip_directory returns ".." first, then the directories in the
\* byte order of their names, then the files in the byte order of theirs.
\* The archive with src/main.txt, src/lib/util.txt and readme.md lists
\* "..", src, readme.md at its root and "..", lib, main.txt in src.
C28_ArchiveOrder ==
    /\ (call.op = "read_zip_directory" /\ call.ret # None)
       => LET r == call.ret[1]
          IN /\ r # << >>
             /\ r[1].name = ".."
             /\ r[1].is_dir
             /\ \A i, j \in 2..Len(r) :
                  i < j => /\ r[i].is_dir \/ ~r[j].is_dir
                           /\ r[i].is_dir = r[j].is_dir
                              => ~BytesLess(Bytes(r[j].name), Bytes(r[i].name))
    /\ NamesOf(read_zip_directory_of(ScenarioMembers, ZipA, << >>))
         = << "..", "src", "readme.md" >>
    /\ NamesOf(read_zip_directory_of(ScenarioMembers, ZipA, << "src" >>))
         = << "..", "lib", "main.txt" >>

\* the directory src of the archive of the scenario was read
C28_Witness ==
    /\ call.op = "read_zip_directory"
    /\ call.members = ScenarioMembers
    /\ call.cwd = << "src" >>
    /\ call.ret # None
    /\ NamesOf(call.ret[1]) = << "..", "lib", "main.txt" >>

\* C29: a byte prefix is binary if it holds a NUL byte or if its printable
\* bytes (tab, LF, CR, 0x20..0x7E) are at most 85 in 100 of its bytes, and
\* text otherwise; an empty prefix, which has no ratio, is text.  17
\* printable bytes of 20 are binary, 43 of 50 are text.
C29_TextOrBinary ==
    /\ (call.op = "is_probably_text" /\ call.ret # None /\ call.bytes # << >>)
       => LET b == call.bytes
              nul == \E i \in 1..Len(b) : b[i] = 0
              printable ==
                  Cardinality({ i \in 1..Len(b) :
                                  b[i] \in {9, 10, 13} \cup 32..126 })
          IN call.ret[1] = ~(nul \/ 100 * printable <= 85 * Len(b))
    /\ ~is_probably_text(MkBytes(17, 32, 3, 127, FALSE))
    /\ is_probably_text(MkBytes(43, 32, 7, 127, FALSE))

\* a prefix of 20 bytes without NUL, 17 of them printable, was classified
C29_Witness ==
    /\ call.op = "is_probably_text"
    /\ call.bytes = MkBytes(17, 126, 3, 31, FALSE)
    /\ call.ret = Some(FALSE)

\* the files of this environment whose bytes cannot be read
Unreadable == { FsLoc(<< "d", "x" >>), ZipLoc(ZipA, << "s", "n" >>) }

\* C30: with the cursor on a row that is no directory, toggle_preview with
\* no preview open leaves a preview of that row that shows text, a hex dump,
\* the image or an error message, an error message when the bytes cannot be
\* read or the member is not in the archive; with a preview open it closes
\* it; either way the rest of the model is as before.
C30_PreviewNeverFails ==
    /\ LET s2 == toggle_preview(State)
           p == panel[active_panel]
       IN /\ [s2 EXCEPT !.preview = None] = [State EXCEPT !.preview = None]
          /\ preview # None => s2.preview = None
          /\ (/\ preview = None
              /\ p.entries # << >>
              /\ ~At(p.entries, p.selected_index).is_dir)
             => /\ s2.preview # None
                /\ s2.preview[1].of = At(p.entries, p.selected_index).location
                /\ s2.preview[1].shows \in {"text", "hexdump", "image", "error"}
                /\ At(p.entries, p.selected_index).location \in Unreadable
                   => s2.preview[1].shows = "error"
    /\ PreviewOf(DirEntry("z", FALSE, ZipLoc(ZipA, << "z" >>))).shows = "error"

\* the preview of the file that cannot be read is open
C30_Witness ==
    /\ preview # None
    /\ preview[1].of \in Unreadable
    /\ preview[1].shows = "error"

\* C31 as stated: in every reachable state, a row named ".." of a panel is
\* a directory and is the first row of the panel, so that a panel holds at
\* most one such row.
C31_ParentRowFirst ==
    \A side \in Side :
        \A i \in 1..Len(panel[side].entries) :
            panel[side].entries[i].name = ".."
            => /\ panel[side].entries[i].is_dir
               /\ i = 1

\* C32 as stated: in Fs mode every row of a panel has a filesystem location,
\* and in Zip mode every row has a Zip location of the archive of the mode.
C32_ModeMatchesAll ==
    \A side \in Side :
        LET p == panel[side]
        IN \A i \in 1..Len(p.entries) :
              IF p.mode.kind = "Fs"
              THEN p.entries[i].location.kind = "Fs"
              ELSE /\ p.entries[i].location.kind = "Zip"
                   /\ p.entries[i].location.path = p.mode.archive_path

\* C32: in Fs mode every row of a panel has a filesystem location; in Zip
\* mode every row has a Zip location of the archive of the mode, except the
\* first row of a panel at the root of the archive, the ".." row, whose
\* location is the filesystem directory that holds the archive.
C32_ModeMatchesEntries ==
    \A side \in Side :
        LET p == panel[side]
        IN \A i \in 1..Len(p.entries) :
              IF p.mode.kind = "Fs"
              THEN p.entries[i].location.kind = "Fs"
              ELSE IF i = 1 /\ p.mode.cwd = << >>
                   THEN /\ p.entries[i].name = ".."
                        /\ p.entries[i].location.kind = "Fs"
                        /\ p.entries[i].location.path =
                             SubSeq(p.mode.archive_path, 1,
                                    Len(p.mode.archive_path) - 1)
                   ELSE /\ p.entries[i].location.kind = "Zip"
                        /\ p.entries[i].location.path = p.mode.archive_path

\* a panel inside a directory of the archive shows the rows of that directory
\* while the other panel shows a directory of the filesystem
C32_Witness ==
    \E side \in Side :
        /\ panel[side].mode.kind = "Zip"
        /\ panel[side].mode.cwd # << >>
        /\ Len(panel[side].entries) >= 3
        /\ panel[Other(side)].mode.kind = "Fs"
        /\ Len(panel[Other(side)].entries) >= 2

\* C33 as stated, its safety half: a panel is without a pending queue only
\* when the thread of its last navigation has returned and every batch that
\* thread sent has been appended to the rows the navigation started with.
C33_NoQueueOnlyWhenAppended ==
    \A side \in Side :
        LET p == panel[side]
            ch == chans[NavOf(side)]
        IN p.entries_rx = None
           => /\ ch.st = "done"
              /\ p.entries = InitialOf(p) \o Flatten(ch.sent)

\* C34: select_entry(i) with i below the number of rows of the active panel
\* makes i the selection and moves the top of the window only as far as
\* needed: to i when i is above the window, to i - rows + 1 when i is below
\* it, nowhere when i is inside; the rows of the panel, the other panel and
\* the choice of the active panel stay as they were.
C34_SelectScrollsMinimally ==
    \A i \in 0..MaxIndex :
        LET p == panel[active_panel]
            rows == compute_window_rows(height)
            after == select_entry(State, i, height)
            q == after.panel[active_panel]
        IN i < Len(p.entries)
           => /\ q.selected_index = i
              /\ q.top_index = IF i < p.top_index THEN i
                               ELSE IF i >= p.top_index + rows THEN i - rows + 1
                               ELSE p.top_index
              /\ q.entries = p.entries
              /\ after.panel[Other(active_panel)] = panel[Other(active_panel)]
              /\ after.active_panel = active_panel

\* a window that is off the top of the list with rows above it, inside it
\* and below it to select
C34_Witness ==
    LET p == panel[active_panel]
        rows == compute_window_rows(height)
    IN /\ p.top_index > 0
       /\ p.top_index + rows < Len(p.entries)
       /\ p.selected_index = p.top_index + rows - 1

\* C35: for a viewport height above 0 compute_window_rows is the number of
\* whole rows of 24 pixels that fit, and 1 when none fits; for a height of 0
\* or below it is 10; it is never below 1, and the top of the window that
\* select_entry and the pump compute as selected_index + 1 - rows, which
\* they do when selected_index >= top_index + rows, is never below 0.
C35_WindowRows ==
    (call.op = "compute_window_rows" /\ call.ret # None)
    => LET h == call.height
           rows == call.ret[1]
       IN /\ h <= 0 => rows = 10
          /\ (h > 0 /\ h < 24) => rows = 1
          /\ h >= 24 => (24 * rows <= h /\ h < 24 * (rows + 1))
          /\ rows >= 1
          /\ call.selected_index >= call.top_index + rows
             => /\ call.selected_index + 1 - rows >= 0
                /\ call.kept[1].top_index = call.selected_index + 1 - rows
          /\ call.kept[1].top_index >= 0

\* a viewport of 47 pixels holds one row; the selection 4 with the window at
\* 1 moved the window to 4
C35_Witness ==
    /\ call.op = "compute_window_rows"
    /\ call.height = 47
    /\ call.selected_index = 4
    /\ call.top_index = 1
    /\ call.ret = Some(1)
    /\ call.kept # None
    /\ call.kept[1].top_index = 4

\* C36: a step that starts a navigation of a panel leaves that panel with
\* the cursor and the window at 0, with the ".." row as its only row (no row
\* for the root of the filesystem), with the queue of the new navigation,
\* with current_path and mode of the place the opened row names, and with
\* prefer_select_name the hint of the navigation, else the name the map
\* remembers for that place, else none; whether or not the place can be read.
C36_NavigationResets ==
    [][\A side \in Side :
          NavOf(side)' # NavOf(side)
          => LET ch == chans'[NavOf(side)']
                 from == panel[active_panel]
                 e == At(from.entries, from.selected_index)
                 q == panel'[side]
             IN /\ side = active_panel
                /\ Len(chans') = Len(chans) + 1
                /\ NavOf(side)' = Len(chans')
                /\ q.entries_rx = Some(Len(chans'))
                /\ q.selected_index = 0
                /\ q.top_index = 0
                /\ IF e.location.kind = "Fs" /\ e.is_dir
                   THEN /\ q.mode = FsMode
                        /\ q.current_path = e.location.path
                        /\ q.entries =
                             IF e.location.path = << >> THEN << >>
                             ELSE << DirEntry("..", TRUE,
                                       FsLoc(SubSeq(e.location.path, 1,
                                                    Len(e.location.path) - 1))) >>
                        /\ q.prefer_select_name =
                             IF ch.hint # None THEN ch.hint
                             ELSE IF e.location.path \in DOMAIN fs_last_selected_name'
                                  THEN Some(fs_last_selected_name'[e.location.path])
                                  ELSE None
                   ELSE LET cwd == IF e.location.kind = "Fs" THEN << >>
                                   ELSE e.location.inner_path
                            key == << e.location.path, cwd >>
                        IN /\ q.mode = ZipMode(e.location.path, cwd)
                           /\ q.current_path = e.location.path
                           /\ Len(q.entries) = 1
                           /\ q.entries[1].name = ".."
                           /\ q.entries[1].is_dir
                           /\ q.prefer_select_name =
                                IF ch.hint # None THEN ch.hint
                                ELSE IF key \in DOMAIN zip_last_selected_name'
                                     THEN Some(zip_last_selected_name'[key])
                                     ELSE None]_vars

\* the directory d was entered again without a hint and could not be read:
\* the panel shows its ".." row, waits on the new queue and asks for the row
\* the map remembers for d
C36_Witness ==
    \E side \in Side :
        /\ chans[NavOf(side)].failed
        /\ chans[NavOf(side)].hint = None
        /\ chans[NavOf(side)].path = DirD
        /\ panel[side].current_path = DirD
        /\ panel[side].entries_rx = Some(NavOf(side))
        /\ panel[side].entries = << DirEntry("..", TRUE, FsLoc(Root)) >>
        /\ panel[side].prefer_select_name = Some("..")

\* C37: in every reachable state, selecting any row, moving the selection
\* one row up or down, paging up or down and opening the selected row, with
\* any outcome of the read, leave every field of the inactive panel and the
\* choice of the active panel as they are.
C37_ActivePanelOnly ==
    LET sel == panel[active_panel].selected_index
        results ==
            { select_entry(State, i, height) : i \in 0..MaxIndex }
            \cup { select_entry(State, sel + 1, height),
                   select_entry(State, SatSub(sel, 1), height),
                   page_up(State, height),
                   page_down(State, height) }
            \cup { open_selected(State, ok) : ok \in OpenOutcomes(State) }
    IN \A after \in results :
          /\ after.panel[Other(active_panel)] = panel[Other(active_panel)]
          /\ after.active_panel = active_panel

\* the right panel is active inside d with its cursor moved, next to a left
\* panel that stayed in the root with its cursor on the second row
C37_Witness ==
    /\ active_panel = "Right"
    /\ panel["Right"].current_path = DirD
    /\ panel["Right"].selected_index >= 1
    /\ panel["Left"].current_path = Root
    /\ panel["Left"].selected_index = 1
    /\ Len(panel["Left"].entries) >= 2

\* C38: no step removes a key from fs_last_selected_name or
\* zip_last_selected_name; a step changes at most one key of the two maps
\* together, and only a step that is open_selected changes one: the key of
\* the place shown by the active panel, in the map of that panel's mode.
\* The "tab" key, toggle_preview and enqueue_copy_selected change neither
\* map in any reachable state.
C38_MemoryFrame ==
    [][LET fs_changed == { k \in DOMAIN fs_last_selected_name' :
                             \/ k \notin DOMAIN fs_last_selected_name
                             \/ fs_last_selected_name'[k] # fs_last_selected_name[k] }
           zip_changed == { k \in DOMAIN zip_last_selected_name' :
                              \/ k \notin DOMAIN zip_last_selected_name
                              \/ zip_last_selected_name'[k] # zip_last_selected_name[k] }
           p == panel[active_panel]
       IN /\ DOMAIN fs_last_selected_name \subseteq DOMAIN fs_last_selected_name'
          /\ DOMAIN zip_last_selected_name \subseteq DOMAIN zip_last_selected_name'
          /\ Cardinality(fs_changed) + Cardinality(zip_changed) <= 1
          /\ fs_changed # {}
             => /\ p.mode.kind = "Fs"
                /\ fs_changed = {p.current_path}
          /\ zip_changed # {}
             => /\ p.mode.kind = "Zip"
                /\ zip_changed = {<< p.mode.archive_path, p.mode.cwd >>}
          /\ (fs_changed # {} \/ zip_changed # {})
             => \E ok \in BOOLEAN : State' = open_selected(State, ok)
          /\ \A after \in { tab_key(State), toggle_preview(State),
                            enqueue_copy_selected(State) } :
                /\ after.fs_last_selected_name = fs_last_selected_name
                /\ after.zip_last_selected_name = zip_last_selected_name]_vars

\* a name is remembered for the root and another for the root of the
\* archive
C38_Witness ==
    /\ DOMAIN fs_last_selected_name = {Root}
    /\ fs_last_selected_name[Root] = "a.zip"
    /\ DOMAIN zip_last_selected_name = {<< ZipA, << >> >>}
    /\ zip_last_selected_name[<< ZipA, << >> >>] # ".."

\* C39 as stated: in every reachable state with a preview open, the active
\* panel has a selected row, that row is no directory, and the preview is
\* the preview of that row.
C39_PreviewOfSelection ==
    preview # None
    => LET p == panel[active_panel]
       IN /\ p.entries # << >>
          /\ p.selected_index < Len(p.entries)
          /\ ~At(p.entries, p.selected_index).is_dir
          /\ preview[1].of = At(p.entries, p.selected_index).location

\* the value of a hexadecimal digit given as a code point, -1 for any other
HexVal(c) ==
    IF c >= 48 /\ c <= 57 THEN c - 48
    ELSE IF c >= 97 /\ c <= 102 THEN c - 87
    ELSE 0 - 1

\* C40: the dump of n bytes has ceil(n / 16) lines, each ended by a line
\* feed and none for no bytes.  Line k (from 0) is 8 hexadecimal digits that
\* read 16 * k, ": ", sixteen cells of three characters with one more space
\* after the eighth, a space, and the ASCII column.  Cell i holds the two
\* hexadecimal digits of byte 16 * k + i and a space when that byte exists,
\* three spaces when it does not; the ASCII column holds one character per
\* byte of the line, the byte itself from 0x20 to 0x7E and '.' otherwise.
C40_HexdumpLayout ==
    (call.op = "hexdump" /\ call.ret # None)
    => LET b == call.bytes
           out == call.ret[1]
           n == Len(b)
           lines == (n + 15) \div 16
       IN /\ Cardinality({ j \in 1..Len(out) : out[j] = 10 }) = lines
          /\ Len(out) = IF lines = 0 THEN 0
                        ELSE 77 * (lines - 1) + 61 + (n - 16 * (lines - 1))
          /\ \A k \in 0..(lines - 1) :
                LET base == 77 * k
                    m == IF n - 16 * k < 16 THEN n - 16 * k ELSE 16
                IN /\ \A j \in 1..8 :
                         HexVal(out[base + j]) = ((16 * k) \div (16 ^ (8 - j))) % 16
                   /\ out[base + 9] = 58
                   /\ out[base + 10] = 32
                   /\ \A i \in 0..15 :
                         LET c == base + 10 + 3 * i + (IF i >= 8 THEN 1 ELSE 0)
                         IN IF i < m
                            THEN /\ HexVal(out[c + 1]) >= 0
                                 /\ HexVal(out[c + 2]) >= 0
                                 /\ 16 * HexVal(out[c + 1]) + HexVal(out[c + 2])
                                      = b[16 * k + i + 1]
                                 /\ out[c + 3] = 32
                            ELSE /\ out[c + 1] = 32
                                 /\ out[c + 2] = 32
                                 /\ out[c + 3] = 32
                   /\ out[base + 35] = 32
                   /\ out[base + 60] = 32
                   /\ \A i \in 0..(m - 1) :
                         out[base + 61 + i] =
                            IF b[16 * k + i + 1] >= 32 /\ b[16 * k + i + 1] <= 126
                            THEN b[16 * k + i + 1] ELSE 46
                   /\ out[base + 61 + m] = 10

\* 18 bytes that begin with tab, LF, VT, FF, CR were dumped on two lines,
\* the second padded, with '.' for the tab
C40_Witness ==
    /\ call.op = "hexdump"
    /\ call.bytes = DumpBytes(18, 9, 1)
    /\ call.ret # None
    /\ Len(call.ret[1]) = 140
    /\ call.ret[1][61] = 46
    /\ SubSeq(call.ret[1], 78, 93) = << 48, 48, 48, 48, 48, 48, 49, 48, 58, 32,
                                        49, 57, 32, 49, 97, 32 >>

====
